---- MODULE Spec2Model ----
(***************************************************************************)
(* vespalib::GenerationHandler (generationhandler.cpp): one writer thread  *)
(* calling incGeneration, reader threads taking, copying, moving and       *)
(* dropping guards.  Every access to an atomic (_refCount, _generation of  *)
(* a hold, _last, the handler's _generation and _firstUsedGeneration) is   *)
(* one step; writes to the writer-private fields (_first, _free, _next,    *)
(* _numHolds) ride on the atomic step that precedes them in program order. *)
(* Steps of different threads interleave; each thread's steps keep their   *)
(* program order.  A failed assert stops the program (assertFailed).       *)
(***************************************************************************)
EXTENDS Integers, FiniteSets, Sequences, TLC

\* ---------------------------------------------------------------- bounds
\* incGeneration is called at most MaxGen times
MaxGen == 3

\* The client threads: the writer, and two reader threads.  Reader 1 owns
\* two Guard objects (it takes, copies, moves and drops guards), reader 2
\* owns one (it takes and drops guards).
Readers == {1, 2}
Guards == {<<1, 1>>, <<1, 2>>, <<2, 1>>}
\* every incGeneration allocates at most one hold, the constructor one
Holds == 1..(MaxGen + 1)
\* the null pointer
Null == 0
\* no Guard object
NoGuard == <<0, 0>>

\* vespalib::ref_counted (ref_counted_test.cpp): the threads that copy and
\* drop handles, the objects (a and b of with_threads, obj1 and obj2 of
\* copy_ref_counted) and the handle variables.  Thread 1 owns four handles
\* (obj1, obj2, src and dst of copy_ref_counted), thread 2 owns two (the
\* copies a worker of with_threads holds).
RcThreads == {1, 2}
RcObjs == {1, 2}
RcHandles == {<<1, 1>>, <<1, 2>>, <<1, 3>>, <<1, 4>>, <<2, 1>>, <<2, 2>>}

\* One GenerationHold on its own: readers hold at most MaxPins references
\* on it at a time
MaxPins == 3

\* generation_t with GenBits bits: the width at which the counter wraps
GenBits == 3
GenMod == 2 ^ GenBits
\* incGeneration is called at most MaxWgCalls times on the narrow handler
MaxWgCalls == GenMod + GenMod \div 2

\* streaming::HitCollector (hitcollector.cpp): wantedHits is at most
\* MaxWanted; rank scores are 0..MaxKey, sort blobs 1..MaxKey, and 0 stands
\* for the empty sort blob
MaxWanted == 3
MaxKey == 2

\* streaming::SearchEnvironment (searchenvironment.cpp): the threads that
\* call getEnv, the search cluster names they ask for, and how many
\* thread local maps a run creates at most
SeThreads == {1, 2}
SeNames == {"a", "b"}
MaxLocalMaps == 3

VARIABLES
    \* GenerationHold fields, per hold record
    refCount,            \* _refCount: 2 * readers + (1 if invalid)
    holdGeneration,      \* _generation of the hold
    holdNext,            \* _next
    \* GenerationHandler fields
    generation,          \* _generation
    firstUsedGeneration, \* _firstUsedGeneration
    last,                \* _last
    first,               \* _first
    free,                \* _free
    numHolds,            \* _numHolds
    \* the writer thread inside incGeneration
    wpc,                 \* position
    ngen,                \* local ngen
    wlast,               \* local last
    nhold,               \* local nhold
    \* reader threads
    rpc,                 \* position inside takeGuard
    rhold,               \* the pointer loaded from _last
    rslot,               \* the Guard object that receives takeGuard's result
    guards,              \* guards[g]: _hold of Guard object g
    \* history
    pinned,              \* pinned[g]: the hold's tag when the guard was returned
    startGen,            \* startGen[t]: _generation when takeGuard started
    everTaken,           \* some takeGuard has started
    numCalls,            \* incGeneration calls started
    callInfo,            \* what the running incGeneration saw when called,
                         \* and whether no reader has acted since (quiet)
    assertFailed,        \* an assert of the source has failed
    \* ref_counted objects and handles
    rcCount,             \* rcCount[o]: count_refs() of object o
    rcCtor,              \* the objects constructed so far (ctor_cnt)
    rcDtor,              \* rcDtor[o]: how often o was destroyed (dtor_cnt)
    rcHandles,           \* rcHandles[h]: the object handle h points to
    rcPending,           \* rcPending[t]: what thread t still has to do to
                         \* finish its handle operation
    \* one GenerationHold on its own, and a setInvalid() call on it
    siWord,              \* _refCount of the hold
    siRollbacks,         \* failed acquires that have not called release() yet
    siPc,                \* position of the setInvalid() call
    siRefs,              \* its local refs
    siResult,            \* what the call returned
    \* a handler with a GenBits wide generation_t, its calls one at a time
    wgGeneration,        \* _generation
    wgFirstUsed,         \* _firstUsedGeneration
    wgHolds,             \* the holds from _first to _last: _generation,
                         \* getRefCount(), and for the record how many
                         \* incGeneration calls had been made when tagged
    wgCalls,             \* incGeneration calls made
    \* one HitCollector and the hits offered to it
    hcPc,                \* "none" before the constructor, "aborted" after a
                         \* failed assert
    hcCapacity,          \* _hits.capacity()
    hcHits,              \* _hits
    hcUseSortBlob,       \* _use_sort_blob
    hcSortedByDocId,     \* _sortedByDocId
    hcOffered,           \* the hits addHit has been called with
    hcResult,            \* what the last addHit returned
    \* one SearchEnvironment and the threads that call getEnv on it
    sePc,                \* sePc[t]: position of thread t inside getEnv
    seName,              \* seName[t]: its argument searchCluster
    seLock,              \* _lock: the thread that holds it, or Null
    seLocalEnvMap,       \* seLocalEnvMap[t]: _localEnvMap of thread t, a
                         \* map from names to Envs, or SeNullMap
    seEnvMap,            \* _envMap, with Null for a name it does not have
    seThreadLocals,      \* _threadLocals.size()
    seConstructed,       \* seConstructed[n]: Envs constructed for name n
    seReturned,          \* seReturned[n]: the Envs getEnv has returned for n
    seResolved           \* seResolved[t]: the names getEnv has returned
                         \* an Env for to thread t

holdVars == <<refCount, holdGeneration, holdNext>>
handlerVars == <<generation, firstUsedGeneration, last, first, free, numHolds>>
writerVars == <<wpc, ngen, wlast, nhold>>
readerVars == <<rpc, rhold, rslot, guards>>
historyVars == <<pinned, startGen, everTaken, numCalls, callInfo>>
generationVars == <<holdVars, handlerVars, writerVars, readerVars, historyVars, assertFailed>>
rcVars == <<rcCount, rcCtor, rcDtor, rcHandles, rcPending>>
siVars == <<siWord, siRollbacks, siPc, siRefs, siResult>>
wgVars == <<wgGeneration, wgFirstUsed, wgHolds, wgCalls>>
hcVars == <<hcPc, hcCapacity, hcHits, hcUseSortBlob, hcSortedByDocId,
            hcOffered, hcResult>>
seVars == <<sePc, seName, seLock, seLocalEnvMap, seEnvMap, seThreadLocals,
            seConstructed, seReturned, seResolved>>
vars == <<generationVars, rcVars, siVars, wgVars, hcVars, seVars>>
\* what the steps of one model leave alone: the variables of the others
outsideGeneration == <<rcVars, siVars, wgVars, hcVars, seVars>>
outsideRc == <<generationVars, siVars, wgVars, hcVars, seVars>>
outsideSi == <<generationVars, rcVars, wgVars, hcVars, seVars>>
outsideWg == <<generationVars, rcVars, siVars, hcVars, seVars>>
outsideHc == <<generationVars, rcVars, siVars, wgVars, seVars>>
outsideSe == <<generationVars, rcVars, siVars, wgVars, hcVars>>

\* ------------------------------------------------------- GenerationHold
\* valid(refCount): bit 0 clear
valid(refs) == refs % 2 = 0

\* GenerationHold::getRefCount
getRefCount(h) == refCount[h] \div 2

\* the records reachable from p through _next (the chain is acyclic)
RECURSIVE Reach(_, _)
Reach(p, fuel) ==
    IF p = Null \/ fuel = 0 THEN {} ELSE {p} \cup Reach(holdNext[p], fuel - 1)

LiveChain == Reach(first, MaxGen + 1)
FreeList == Reach(free, MaxGen + 1)

\* the alive guards that reference hold h
GuardsOn(h) == {g \in Guards : guards[g] = h}

\* no incGeneration call has started yet, or none is running
NoCall == [calledUnused |-> FALSE, sawUnused |-> FALSE, quiet |-> FALSE,
           chainLen |-> 0, freeLen |-> 0, numHolds |-> 0]

\* thread t is not inside a handle operation
RcIdle == [op |-> "none", obj |-> Null]

\* _localEnvMap == nullptr: no map, told from every map by its entries
SeNullMap == [n \in SeNames |-> Null - 1]
\* an EnvMap without entries
SeEmptyMap == [n \in SeNames |-> Null]

\* ------------------------------------------------------------------ Init
\* GenerationHandler::GenerationHandler: one hold, generation 0, set valid.
\* A hold that is not allocated yet carries its constructor's values.
Init ==
    /\ refCount = [h \in Holds |-> IF h = 1 THEN 0 ELSE 1]
    /\ holdGeneration = [h \in Holds |-> 0]
    /\ holdNext = [h \in Holds |-> Null]
    /\ generation = 0
    /\ firstUsedGeneration = 0
    /\ last = 1
    /\ first = 1
    /\ free = Null
    /\ numHolds = 1
    /\ wpc = "idle"
    /\ ngen = 0
    /\ wlast = Null
    /\ nhold = Null
    /\ rpc = [t \in Readers |-> "idle"]
    /\ rhold = [t \in Readers |-> Null]
    /\ rslot = [t \in Readers |-> NoGuard]
    /\ guards = [g \in Guards |-> Null]
    /\ pinned = [g \in Guards |-> 0]
    /\ startGen = [t \in Readers |-> 0]
    /\ everTaken = FALSE
    /\ numCalls = 0
    /\ callInfo = NoCall
    /\ assertFailed = FALSE
    /\ rcCount = [o \in RcObjs |-> 0]
    /\ rcCtor = {}
    /\ rcDtor = [o \in RcObjs |-> 0]
    /\ rcHandles = [h \in RcHandles |-> Null]
    /\ rcPending = [t \in RcThreads |-> RcIdle]
    /\ siWord = 1
    /\ siRollbacks = 0
    /\ siPc = "idle"
    /\ siRefs = 0
    /\ siResult = "none"
    /\ wgGeneration = 0
    /\ wgFirstUsed = 0
    /\ wgHolds = <<[gen |-> 0, refs |-> 0, born |-> 0]>>
    /\ wgCalls = 0
    /\ hcPc = "none"
    /\ hcCapacity = 0
    /\ hcHits = <<>>
    /\ hcUseSortBlob = FALSE
    /\ hcSortedByDocId = TRUE
    /\ hcOffered = {}
    /\ hcResult = "none"
    /\ sePc = [t \in SeThreads |-> "idle"]
    /\ seName = [t \in SeThreads |-> ""]
    /\ seLock = Null
    /\ seLocalEnvMap = [t \in SeThreads |-> SeNullMap]
    /\ seEnvMap = SeEmptyMap
    /\ seThreadLocals = 0
    /\ seConstructed = [n \in SeNames |-> 0]
    /\ seReturned = [n \in SeNames |-> {}]
    /\ seResolved = [t \in SeThreads |-> {}]

\* --------------------------------------------------------------- readers
\* takeGuard, line 162 / 171: _last.load(acquire)
LoadLast(t) ==
    /\ rhold' = [rhold EXCEPT ![t] = last]
    /\ rpc' = [rpc EXCEPT ![t] = "acquire"]

\* a takeGuard call of thread g[1] starts; its result will be move-constructed
\* into the empty Guard object g
TakeGuardStart(g) ==
    /\ ~assertFailed
    /\ wpc # "destroyed"
    /\ rpc[g[1]] = "idle"
    /\ guards[g] = Null
    /\ LoadLast(g[1])
    /\ rslot' = [rslot EXCEPT ![g[1]] = g]
    /\ startGen' = [startGen EXCEPT ![g[1]] = generation]
    /\ everTaken' = TRUE
    /\ callInfo' = [callInfo EXCEPT !.quiet = FALSE]
    /\ UNCHANGED <<holdVars, handlerVars, writerVars, guards, pinned,
                   numCalls, assertFailed>>

\* mutant: acquire() keeps the pin whatever the word was
AcquireKeepsAlways(refs) == TRUE

\* line 41: acquire() keeps the pin when the word before fetch_add(2) was valid
AcquireKeeps(refs) == valid(refs)

\* Guard(hold) -> acquire(), line 41: fetch_add(2); when the pin is kept the
\* guard is valid and takeGuard returns it (lines 165, 174)
AcquireStep(t) ==
    /\ ~assertFailed
    /\ rpc[t] = "acquire"
    /\ refCount' = [refCount EXCEPT ![rhold[t]] = @ + 2]
    /\ IF AcquireKeeps(refCount[rhold[t]])
       THEN /\ guards' = [guards EXCEPT ![rslot[t]] = rhold[t]]
            /\ pinned' = [pinned EXCEPT ![rslot[t]] = holdGeneration[rhold[t]]]
            /\ rpc' = [rpc EXCEPT ![t] = "idle"]
            /\ rhold' = [rhold EXCEPT ![t] = Null]
            /\ rslot' = [rslot EXCEPT ![t] = NoGuard]
            /\ startGen' = [startGen EXCEPT ![t] = 0]
       ELSE /\ rpc' = [rpc EXCEPT ![t] = "rollback"]
            /\ UNCHANGED <<guards, pinned, rhold, rslot, startGen>>
    /\ UNCHANGED <<holdGeneration, holdNext, handlerVars, writerVars,
                   everTaken, numCalls, callInfo, assertFailed>>

\* mutant: a failed acquire() returns nullptr without release()
RollbackStepNoRelease(t) ==
    /\ ~assertFailed
    /\ rpc[t] = "rollback"
    /\ rpc' = [rpc EXCEPT ![t] = "retry"]
    /\ rhold' = [rhold EXCEPT ![t] = Null]
    /\ UNCHANGED <<holdVars, handlerVars, writerVars, rslot, guards,
                   historyVars, assertFailed>>

\* mutant: after the rollback takeGuard tries the same hold again instead
\* of loading _last
RollbackStepSameHold(t) ==
    /\ ~assertFailed
    /\ rpc[t] = "rollback"
    /\ refCount' = [refCount EXCEPT ![rhold[t]] = @ - 2]
    /\ rpc' = [rpc EXCEPT ![t] = "acquire"]
    /\ UNCHANGED <<holdGeneration, holdNext, handlerVars, writerVars, rhold,
                   rslot, guards, historyVars, assertFailed>>

\* acquire() on an invalid old word, line 44: release(), return nullptr
RollbackStep(t) ==
    /\ ~assertFailed
    /\ rpc[t] = "rollback"
    /\ refCount' = [refCount EXCEPT ![rhold[t]] = @ - 2]
    /\ rpc' = [rpc EXCEPT ![t] = "retry"]
    /\ rhold' = [rhold EXCEPT ![t] = Null]
    /\ UNCHANGED <<holdGeneration, holdNext, handlerVars, writerVars, rslot,
                   guards, historyVars, assertFailed>>

\* mutant: takeGuard returns the guard of a failed acquire instead of retrying
RetryStepGivesUp(t) ==
    /\ ~assertFailed
    /\ rpc[t] = "retry"
    /\ rpc' = [rpc EXCEPT ![t] = "idle"]
    /\ rslot' = [rslot EXCEPT ![t] = NoGuard]
    /\ startGen' = [startGen EXCEPT ![t] = 0]
    /\ UNCHANGED <<holdVars, handlerVars, writerVars, rhold, guards, pinned,
                   everTaken, numCalls, callInfo, assertFailed>>

\* takeGuard, lines 165-171: the guard is not valid, load _last again
RetryStep(t) ==
    /\ ~assertFailed
    /\ rpc[t] = "retry"
    /\ LoadLast(t)
    /\ UNCHANGED <<holdVars, handlerVars, writerVars, rslot, guards,
                   historyVars, assertFailed>>

\* ~Guard, line 76: cleanup() releases the pin (line 36)
GuardDestroy(g) ==
    /\ ~assertFailed
    /\ rpc[g[1]] = "idle"
    /\ guards[g] # Null
    /\ refCount' = [refCount EXCEPT ![guards[g]] = @ - 2]
    /\ guards' = [guards EXCEPT ![g] = Null]
    /\ pinned' = [pinned EXCEPT ![g] = 0]
    /\ UNCHANGED <<holdGeneration, holdNext, handlerVars, writerVars, rpc,
                   rhold, rslot, startGen, everTaken, numCalls, callInfo,
                   assertFailed>>

\* Guard(const Guard &), line 81 -> GenerationHold::copy, lines 50-58:
\* Guard object d is copy-constructed from s; from an empty s (line 51) it
\* is empty as before
GuardCopy(d, s) ==
    /\ ~assertFailed
    /\ d # s
    /\ d[1] = s[1]
    /\ rpc[d[1]] = "idle"
    /\ guards[d] = Null
    /\ IF guards[s] = Null
       THEN UNCHANGED <<refCount, guards, pinned, assertFailed>>
       ELSE /\ refCount' = [refCount EXCEPT ![guards[s]] = @ + 2]
            /\ IF valid(refCount[guards[s]])
               THEN /\ guards' = [guards EXCEPT ![d] = guards[s]]
                    /\ pinned' = [pinned EXCEPT ![d] = pinned[s]]
                    /\ UNCHANGED assertFailed
               ELSE /\ assertFailed' = TRUE
                    /\ UNCHANGED <<guards, pinned>>
    /\ UNCHANGED <<holdGeneration, holdNext, handlerVars, writerVars, rpc,
                   rhold, rslot, startGen, everTaken, numCalls, callInfo>>

\* Guard(Guard &&), line 86: the pin moves from s to d, s is left empty
GuardMove(d, s) ==
    /\ ~assertFailed
    /\ d # s
    /\ d[1] = s[1]
    /\ rpc[d[1]] = "idle"
    /\ guards[d] = Null
    /\ guards' = [guards EXCEPT ![d] = guards[s], ![s] = Null]
    /\ pinned' = [pinned EXCEPT ![d] = pinned[s], ![s] = 0]
    /\ UNCHANGED <<holdVars, handlerVars, writerVars, rpc, rhold, rslot,
                   startGen, everTaken, numCalls, callInfo, assertFailed>>

\* mutant: the assignment operators do not test for self-assignment
SelfAssignmentMissed(d, s) == FALSE

\* lines 95 and 105: &rhs == this
SelfAssignment(d, s) == d = s

\* mutant: release() takes 1 from the word
ReleasedOne(refs, h) ==
    IF h = Null THEN refs ELSE [refs EXCEPT ![h] = @ - 1]

\* the words after cleanup() of a guard on h: release(), line 36, when h is
\* a hold
Released(refs, h) ==
    IF h = Null THEN refs ELSE [refs EXCEPT ![h] = @ - 2]

\* the words after GenerationHold::copy(h): fetch_add(2), line 54, when h is
\* a hold
Copied(refs, h) ==
    IF h = Null THEN refs ELSE [refs EXCEPT ![h] = @ + 2]

\* Guard::operator=(const Guard &), lines 92-100: d = s; rhs._hold is read
\* after cleanup() has emptied d
GuardCopyAssign(d, s) ==
    /\ ~assertFailed
    /\ d[1] = s[1]
    /\ rpc[d[1]] = "idle"
    /\ IF SelfAssignment(d, s)
       THEN UNCHANGED <<refCount, guards, pinned, assertFailed>>
       ELSE LET cleaned == [guards EXCEPT ![d] = Null]
                released == Released(refCount, guards[d])
                rhs == cleaned[s]
            IN  /\ refCount' = Copied(released, rhs)
                /\ guards' = [cleaned EXCEPT ![d] = rhs]
                /\ pinned' = [pinned EXCEPT ![d] = IF rhs = Null THEN 0 ELSE pinned[s]]
                /\ assertFailed' = (rhs # Null /\ ~valid(released[rhs]))
    /\ UNCHANGED <<holdGeneration, holdNext, handlerVars, writerVars, rpc,
                   rhold, rslot, startGen, everTaken, numCalls, callInfo>>

\* Guard::operator=(Guard &&), lines 102-111: d = std::move(s)
GuardMoveAssign(d, s) ==
    /\ ~assertFailed
    /\ d[1] = s[1]
    /\ rpc[d[1]] = "idle"
    /\ IF SelfAssignment(d, s)
       THEN UNCHANGED <<refCount, guards, pinned>>
       ELSE LET cleaned == [guards EXCEPT ![d] = Null]
                rhs == cleaned[s]
            IN  /\ refCount' = Released(refCount, guards[d])
                /\ guards' = [cleaned EXCEPT ![d] = rhs, ![s] = Null]
                /\ pinned' = [pinned EXCEPT ![d] = IF rhs = Null THEN 0 ELSE pinned[s],
                                            ![s] = 0]
    /\ UNCHANGED <<holdGeneration, holdNext, handlerVars, writerVars, rpc,
                   rhold, rslot, startGen, everTaken, numCalls, callInfo,
                   assertFailed>>

\* ---------------------------------------------------------------- writer
\* incGeneration, lines 180-185: ngen = getNextGeneration(), the fence,
\* last = _last.load(relaxed)
IncStart ==
    /\ ~assertFailed
    /\ wpc = "idle"
    /\ numCalls < MaxGen
    /\ ngen' = generation + 1
    /\ wlast' = last
    /\ wpc' = "check"
    /\ numCalls' = numCalls + 1
    /\ callInfo' = [calledUnused |-> (getRefCount(last) = 0),
                    sawUnused |-> FALSE,
                    quiet |-> /\ \A g \in Guards : guards[g] = Null
                              /\ \A t \in Readers : rpc[t] = "idle",
                    chainLen |-> Cardinality(LiveChain),
                    freeLen |-> Cardinality(FreeList),
                    numHolds |-> numHolds]
    /\ UNCHANGED <<holdVars, handlerVars, nhold, readerVars, pinned,
                   startGen, everTaken, assertFailed>>

\* mutant: incGeneration morphs whatever the reader count is
LastUnusedAlways(h) == TRUE

\* mutant: incGeneration never morphs
LastUnusedNever(h) == FALSE

\* line 186: the last hold is unused
LastUnused(h) == getRefCount(h) = 0

\* line 186: if (last->getRefCount() == 0)
IncCheck ==
    /\ ~assertFailed
    /\ wpc = "check"
    /\ wpc' = IF LastUnused(wlast) THEN "morph_setgen" ELSE "new_alloc"
    /\ callInfo' = [callInfo EXCEPT !.sawUnused = (getRefCount(wlast) = 0)]
    /\ UNCHANGED <<holdVars, handlerVars, ngen, wlast, nhold, readerVars,
                   pinned, startGen, everTaken, numCalls,
                   assertFailed>>

\* mutant: the morph path leaves the generation counter as it is
MorphSetGenerationSkipped ==
    /\ ~assertFailed
    /\ wpc = "morph_setgen"
    /\ wpc' = "morph_store"
    /\ UNCHANGED <<holdVars, handlerVars, ngen, wlast, nhold, readerVars,
                   historyVars, assertFailed>>

\* line 191: set_generation(ngen)
MorphSetGeneration ==
    /\ ~assertFailed
    /\ wpc = "morph_setgen"
    /\ generation' = ngen
    /\ wpc' = "morph_store"
    /\ UNCHANGED <<holdVars, firstUsedGeneration, last, first, free, numHolds,
                   ngen, wlast, nhold, readerVars, historyVars, assertFailed>>

\* mutant: the morph path leaves the tag of the last hold as it is
MorphStoreSkipped ==
    /\ ~assertFailed
    /\ wpc = "morph_store"
    /\ wpc' = "sweep"
    /\ UNCHANGED <<holdVars, handlerVars, ngen, wlast, nhold, readerVars,
                   historyVars, assertFailed>>

\* line 192: last->_generation.store(ngen)
MorphStore ==
    /\ ~assertFailed
    /\ wpc = "morph_store"
    /\ holdGeneration' = [holdGeneration EXCEPT ![wlast] = ngen]
    /\ wpc' = "sweep"
    /\ UNCHANGED <<refCount, holdNext, handlerVars, ngen, wlast, nhold,
                   readerVars, historyVars, assertFailed>>

\* mutant: the new hold gets the generation of the hold before it
PreviousGeneration(h) == ngen - 1

\* mutant: a recycled hold keeps the tag it had
StaleHoldGeneration(h) == holdGeneration[h]

\* line 204: the generation tag the new last hold gets
NewHoldGeneration(h) == ngen

\* mutant: incGeneration allocates even when the freelist has a hold
NewHoldAlwaysAllocates ==
    /\ ~assertFailed
    /\ wpc = "new_alloc"
    /\ nhold' = numHolds + 1
    /\ numHolds' = numHolds + 1
    /\ holdGeneration' = [holdGeneration EXCEPT ![numHolds + 1] = ngen]
    /\ holdNext' = [holdNext EXCEPT ![numHolds + 1] = Null]
    /\ wpc' = "new_valid"
    /\ UNCHANGED <<refCount, generation, firstUsedGeneration, last, first,
                   free, ngen, wlast, readerVars, historyVars, assertFailed>>

\* lines 196-205: a new hold, or the head of the freelist; its generation
\* tag and its _next are set
NewHold ==
    /\ ~assertFailed
    /\ wpc = "new_alloc"
    /\ LET h == IF free = Null THEN numHolds + 1 ELSE free
       IN /\ nhold' = h
          /\ numHolds' = IF free = Null THEN numHolds + 1 ELSE numHolds
          /\ free' = IF free = Null THEN Null ELSE holdNext[free]
          /\ holdGeneration' = [holdGeneration EXCEPT ![h] = NewHoldGeneration(h)]
          /\ holdNext' = [holdNext EXCEPT ![h] = Null]
    /\ wpc' = "new_valid"
    /\ UNCHANGED <<refCount, generation, firstUsedGeneration, last, first,
                   ngen, wlast, readerVars, historyVars, assertFailed>>

\* mutant: the new hold is linked and published without setValid()
NewSetValidSkipped ==
    /\ ~assertFailed
    /\ wpc = "new_valid"
    /\ holdNext' = [holdNext EXCEPT ![wlast] = nhold]
    /\ wpc' = "new_setgen"
    /\ UNCHANGED <<refCount, holdGeneration, handlerVars, ngen, wlast, nhold,
                   readerVars, historyVars, assertFailed>>

\* lines 206-207: nhold->setValid() (lines 19-21), last->_next = nhold
NewSetValid ==
    /\ ~assertFailed
    /\ wpc = "new_valid"
    /\ IF valid(refCount[nhold])
       THEN /\ assertFailed' = TRUE
            /\ UNCHANGED <<refCount, holdNext, wpc>>
       ELSE /\ refCount' = [refCount EXCEPT ![nhold] = @ - 1]
            /\ holdNext' = [holdNext EXCEPT ![wlast] = nhold]
            /\ wpc' = "new_setgen"
            /\ UNCHANGED assertFailed
    /\ UNCHANGED <<holdGeneration, handlerVars, ngen, wlast, nhold,
                   readerVars, historyVars>>

\* mutant: the new-hold path publishes the hold without set_generation
NewSetGenerationSkipped ==
    /\ ~assertFailed
    /\ wpc = "new_setgen"
    /\ wpc' = "new_publish"
    /\ UNCHANGED <<holdVars, handlerVars, ngen, wlast, nhold, readerVars,
                   historyVars, assertFailed>>

\* line 208: set_generation(ngen)
NewSetGeneration ==
    /\ ~assertFailed
    /\ wpc = "new_setgen"
    /\ generation' = ngen
    /\ wpc' = "new_publish"
    /\ UNCHANGED <<holdVars, firstUsedGeneration, last, first, free, numHolds,
                   ngen, wlast, nhold, readerVars, historyVars, assertFailed>>

\* line 209: _last.store(nhold, release)
NewPublish ==
    /\ ~assertFailed
    /\ wpc = "new_publish"
    /\ last' = nhold
    /\ wpc' = "sweep"
    /\ UNCHANGED <<holdVars, generation, firstUsedGeneration, first, free,
                   numHolds, ngen, wlast, nhold, readerVars, historyVars,
                   assertFailed>>

\* mutant: the sweep does not stop at the last hold
NothingToFreeNever == FALSE

\* line 117: no elements can be freed
NothingToFree == first = last

\* mutant: the test of line 28 inverted
StillInUseInverted(refs) == refs = 0

\* line 28: setInvalid gives up on the word it read
StillInUse(refs) == refs # 0

\* updateFirstUsedGeneration, lines 117-119, and setInvalid, lines 26-30:
\* the loop test and the read of _first's word
SweepLoad ==
    /\ ~assertFailed
    /\ wpc = "sweep"
    /\ IF NothingToFree
       THEN /\ wpc' = "store"
            /\ UNCHANGED assertFailed
       ELSE IF ~valid(refCount[first])
       THEN /\ assertFailed' = TRUE
            /\ UNCHANGED wpc
       ELSE IF StillInUse(refCount[first])
       THEN /\ wpc' = "store"
            /\ UNCHANGED assertFailed
       ELSE /\ wpc' = "cas"
            /\ UNCHANGED assertFailed
    /\ UNCHANGED <<holdVars, handlerVars, ngen, wlast, nhold, readerVars,
                   historyVars>>

\* mutant: a plain store instead of the compare-and-swap
CasSucceedsAlways(h) == TRUE

\* line 31: compare_exchange_strong(refs, 1), refs being the 0 read before
CasSucceeds(h) == refCount[h] = 0

\* mutant: the retired hold is not linked to the rest of the freelist
RetiredNextLost == Null

\* line 125: toFree->_next = _free
RetiredNext == free

\* setInvalid, line 31, and on success lines 122-126: the hold moves from
\* the head of the live chain to the head of the freelist
SweepCas ==
    /\ ~assertFailed
    /\ wpc = "cas"
    /\ IF CasSucceeds(first)
       THEN IF holdNext[first] = Null
            THEN /\ assertFailed' = TRUE
                 /\ refCount' = [refCount EXCEPT ![first] = 1]
                 /\ UNCHANGED <<holdNext, first, free, wpc>>
            ELSE /\ refCount' = [refCount EXCEPT ![first] = 1]
                 /\ first' = holdNext[first]
                 /\ holdNext' = [holdNext EXCEPT ![first] = RetiredNext]
                 /\ free' = first
                 /\ wpc' = "sweep"
                 /\ UNCHANGED assertFailed
       ELSE /\ wpc' = "store"
            /\ UNCHANGED <<refCount, holdNext, first, free, assertFailed>>
    /\ UNCHANGED <<holdGeneration, generation, firstUsedGeneration, last,
                   numHolds, ngen, wlast, nhold, readerVars, historyVars>>

\* mutant: the watermark is the generation counter
WatermarkCounter == generation

\* mutant: the watermark is taken from the last hold
WatermarkFromLast == holdGeneration[last]

\* mutant: the watermark is not updated
WatermarkStale == firstUsedGeneration

\* line 128: the watermark the sweep stores
Watermark == holdGeneration[first]

\* line 128: _firstUsedGeneration.store(_first->_generation); incGeneration
\* returns
SweepStore ==
    /\ ~assertFailed
    /\ wpc = "store"
    /\ firstUsedGeneration' = Watermark
    /\ wpc' = "idle"
    /\ ngen' = 0
    /\ wlast' = Null
    /\ nhold' = Null
    /\ callInfo' = NoCall
    /\ UNCHANGED <<holdVars, generation, last, first, free, numHolds,
                   readerVars, pinned, startGen, everTaken, numCalls,
                   assertFailed>>

\* ------------------------------------------------------------------ Next
Next ==
    \/ \E g \in Guards : TakeGuardStart(g) /\ UNCHANGED outsideGeneration
    \/ \E t \in Readers : AcquireStep(t) /\ UNCHANGED outsideGeneration
    \/ \E t \in Readers : RollbackStep(t) /\ UNCHANGED outsideGeneration
    \/ \E t \in Readers : RetryStep(t) /\ UNCHANGED outsideGeneration
    \/ \E g \in Guards : GuardDestroy(g) /\ UNCHANGED outsideGeneration
    \/ \E d \in Guards, s \in Guards : GuardCopy(d, s) /\ UNCHANGED outsideGeneration
    \/ \E d \in Guards, s \in Guards : GuardMove(d, s) /\ UNCHANGED outsideGeneration
    \/ \E d \in Guards, s \in Guards : GuardCopyAssign(d, s) /\ UNCHANGED outsideGeneration
    \/ \E d \in Guards, s \in Guards : GuardMoveAssign(d, s) /\ UNCHANGED outsideGeneration
    \/ IncStart /\ UNCHANGED outsideGeneration
    \/ IncCheck /\ UNCHANGED outsideGeneration
    \/ MorphSetGeneration /\ UNCHANGED outsideGeneration
    \/ MorphStore /\ UNCHANGED outsideGeneration
    \/ NewHold /\ UNCHANGED outsideGeneration
    \/ NewSetValid /\ UNCHANGED outsideGeneration
    \/ NewSetGeneration /\ UNCHANGED outsideGeneration
    \/ NewPublish /\ UNCHANGED outsideGeneration
    \/ SweepLoad /\ UNCHANGED outsideGeneration
    \/ SweepCas /\ UNCHANGED outsideGeneration
    \/ SweepStore /\ UNCHANGED outsideGeneration

Spec == Init /\ [][Next]_vars

\* a step of thread t inside takeGuard, lines 162-171
TakeGuardStep(t) ==
    (AcquireStep(t) \/ RollbackStep(t) \/ RetryStep(t)) /\ UNCHANGED outsideGeneration

\* every reader thread that is inside takeGuard is scheduled again; nothing
\* is assumed of the writer
\* Two readers that each take and drop one guard while the writer advances
\* the generation: the calls of takeGuard() and incGeneration() alone.
NextTake ==
    \/ \E t \in Readers : TakeGuardStart(<<t, 1>>) /\ UNCHANGED outsideGeneration
    \/ \E t \in Readers : AcquireStep(t) /\ UNCHANGED outsideGeneration
    \/ \E t \in Readers : RollbackStep(t) /\ UNCHANGED outsideGeneration
    \/ \E t \in Readers : RetryStep(t) /\ UNCHANGED outsideGeneration
    \/ \E t \in Readers : GuardDestroy(<<t, 1>>) /\ UNCHANGED outsideGeneration
    \/ IncStart /\ UNCHANGED outsideGeneration
    \/ IncCheck /\ UNCHANGED outsideGeneration
    \/ MorphSetGeneration /\ UNCHANGED outsideGeneration
    \/ MorphStore /\ UNCHANGED outsideGeneration
    \/ NewHold /\ UNCHANGED outsideGeneration
    \/ NewSetValid /\ UNCHANGED outsideGeneration
    \/ NewSetGeneration /\ UNCHANGED outsideGeneration
    \/ NewPublish /\ UNCHANGED outsideGeneration
    \/ SweepLoad /\ UNCHANGED outsideGeneration
    \/ SweepCas /\ UNCHANGED outsideGeneration
    \/ SweepStore /\ UNCHANGED outsideGeneration

\* A reader thread that is inside takeGuard() keeps running; nothing is
\* assumed about the writer.
SpecFair ==
    Init /\ [][NextTake]_vars /\ \A t \in Readers : WF_vars(TakeGuardStep(t))

\* --------------------------------------------------------------- queries
\* static_cast<sgeneration_t>(a - b), lines 216 and 218, for generations far
\* from the wrap of generation_t
sgeneration(a, b) == a - b

\* mutant: the walk looks at the last hold only
WalkStartAtLast == last

\* lines 220 and 231: the hold the walks start at
WalkStart == first

\* lines 220-224: the count of the first hold from p on that carries gen
RECURSIVE FirstMatch(_, _, _)
FirstMatch(p, gen, fuel) ==
    IF p = Null \/ fuel = 0 THEN 0
    ELSE IF holdGeneration[p] = gen THEN getRefCount(p)
    ELSE FirstMatch(holdNext[p], gen, fuel - 1)

\* GenerationHandler::getGenerationRefCount(generation_t), lines 213-225
getGenerationRefCount(gen) ==
    IF sgeneration(gen, generation) > 0 THEN 0
    ELSE IF sgeneration(firstUsedGeneration, gen) > 0 THEN 0
    ELSE FirstMatch(WalkStart, gen, MaxGen + 1)

\* mutant: the walk adds the refcount words, valid bit and all
RECURSIVE SumOfWords(_, _)
SumOfWords(p, fuel) ==
    IF p = Null \/ fuel = 0 THEN 0
    ELSE refCount[p] + SumOfWords(holdNext[p], fuel - 1)

\* lines 231-233: the sum of getRefCount() over the holds from p on
RECURSIVE SumFrom(_, _)
SumFrom(p, fuel) ==
    IF p = Null \/ fuel = 0 THEN 0
    ELSE getRefCount(p) + SumFrom(holdNext[p], fuel - 1)

\* GenerationHandler::getGenerationRefCount(void), lines 227-235
getTotalRefCount == SumFrom(WalkStart, MaxGen + 1)

\* the generations the queries are asked about
Generations == 0..(MaxGen + 1)

\* updateFirstUsedGeneration run to its end with no other thread acting, on
\* the handler state st = [first, free, next, refs, failed]
RECURSIVE Swept(_)
Swept(st) ==
    IF st.first = last THEN st
    ELSE IF ~valid(st.refs[st.first]) THEN [st EXCEPT !.failed = TRUE]
    ELSE IF StillInUse(st.refs[st.first]) THEN st
    ELSE IF st.next[st.first] = Null THEN [st EXCEPT !.failed = TRUE]
    ELSE Swept([first |-> st.next[st.first],
                free |-> st.first,
                next |-> [st.next EXCEPT ![st.first] = st.free],
                refs |-> [st.refs EXCEPT ![st.first] = 1],
                failed |-> FALSE])

\* the handler state the destructor starts from
Unswept ==
    [first |-> first, free |-> free, next |-> holdNext, refs |-> refCount,
     failed |-> FALSE]

\* mutant: the destructor does not sweep
NoFinalSweep == Unswept

\* line 147: the destructor's updateFirstUsedGeneration()
FinalSweep == Swept(Unswept)

\* the holds reachable from p through the links nx
RECURSIVE ReachIn(_, _, _)
ReachIn(nx, p, fuel) ==
    IF p = Null \/ fuel = 0 THEN {} ELSE {p} \cup ReachIn(nx, nx[p], fuel - 1)

\* lines 149-154: the holds the destructor's loop over _free deletes
DeletedFromFreeList == ReachIn(FinalSweep.next, FinalSweep.free, MaxGen + 1)

\* lines 149-156: the holds a destructor that passes its asserts deletes
DestructorDeletes == DeletedFromFreeList \cup {FinalSweep.first}

\* lines 147-156 and 14-16: why the destructor aborts, "" when it does not
DestructorAbort ==
    IF FinalSweep.failed THEN "sweep"
    ELSE IF FinalSweep.first # last THEN "first == last"
    ELSE IF \E h \in DeletedFromFreeList : FinalSweep.refs[h] \div 2 # 0
    THEN "free hold in use"
    ELSE IF numHolds - Cardinality(DeletedFromFreeList) # 1 THEN "numHolds == 1"
    ELSE IF FinalSweep.refs[FinalSweep.first] \div 2 # 0 THEN "last hold in use"
    ELSE ""

\* GenerationHandler::~GenerationHandler, lines 145-157, called when no
\* takeGuard and no incGeneration call is running
Destroy ==
    /\ ~assertFailed
    /\ wpc = "idle"
    /\ \A t \in Readers : rpc[t] = "idle"
    /\ wpc' = "destroyed"
    /\ first' = FinalSweep.first
    /\ holdNext' = FinalSweep.next
    /\ refCount' = FinalSweep.refs
    /\ firstUsedGeneration' =
          IF FinalSweep.failed THEN firstUsedGeneration
          ELSE holdGeneration[FinalSweep.first]
    /\ assertFailed' = (DestructorAbort # "")
    /\ IF DestructorAbort \in {"sweep", "first == last", "free hold in use"}
       THEN /\ free' = FinalSweep.free
            /\ numHolds' = numHolds
       ELSE /\ free' = Null
            /\ numHolds' = numHolds - Cardinality(DeletedFromFreeList)
    /\ UNCHANGED <<holdGeneration, generation, last, ngen, wlast, nhold,
                   readerVars, historyVars>>

NextDestroy ==
    \/ Next
    \/ Destroy /\ UNCHANGED outsideGeneration

SpecDestroy == Init /\ [][NextDestroy]_vars

\* ------------------------------------------------------- one at a time
\* The handler used as the single-threaded scenarios use it: every
\* operation runs to its end before the next one starts.
Quiescent == wpc = "idle" /\ \A t \in Readers : rpc[t] = "idle"

NextSeq ==
    \/ \E g \in Guards : Quiescent /\ TakeGuardStart(g) /\ UNCHANGED outsideGeneration
    \/ \E t \in Readers : AcquireStep(t) /\ UNCHANGED outsideGeneration
    \/ \E g \in Guards : Quiescent /\ GuardDestroy(g) /\ UNCHANGED outsideGeneration
    \/ \E d \in Guards, s \in Guards : Quiescent /\ GuardCopy(d, s) /\ UNCHANGED outsideGeneration
    \/ \E d \in Guards, s \in Guards : Quiescent /\ GuardMove(d, s) /\ UNCHANGED outsideGeneration
    \/ \E d \in Guards, s \in Guards : Quiescent /\ GuardCopyAssign(d, s) /\ UNCHANGED outsideGeneration
    \/ \E d \in Guards, s \in Guards : Quiescent /\ GuardMoveAssign(d, s) /\ UNCHANGED outsideGeneration
    \/ Quiescent /\ IncStart /\ UNCHANGED outsideGeneration
    \/ IncCheck /\ UNCHANGED outsideGeneration
    \/ MorphSetGeneration /\ UNCHANGED outsideGeneration
    \/ MorphStore /\ UNCHANGED outsideGeneration
    \/ NewHold /\ UNCHANGED outsideGeneration
    \/ NewSetValid /\ UNCHANGED outsideGeneration
    \/ NewSetGeneration /\ UNCHANGED outsideGeneration
    \/ NewPublish /\ UNCHANGED outsideGeneration
    \/ SweepLoad /\ UNCHANGED outsideGeneration
    \/ SweepCas /\ UNCHANGED outsideGeneration
    \/ SweepStore /\ UNCHANGED outsideGeneration

SpecSeq == Init /\ [][NextSeq]_vars

\* ------------------------------------------------------------ ref_counted
\* enable_ref_counted keeps an atomic reference count that starts at 1;
\* ref_counted<T> is a handle that owns one reference of the object it
\* points to.  A handle belongs to one thread; the count is shared.

\* mutant: a copy takes no reference
NoAddRef(cnt, o) == cnt

\* internal_addref() on the object a copied handle points to: fetch_add(1)
AddRef(cnt, o) ==
    IF o = Null THEN cnt ELSE [cnt EXCEPT ![o] = @ + 1]

\* mutant: the reference before the last one destroys the object too
LastReferenceEarly(prev) == prev <= 2

\* internal_subref(): the count before fetch_sub(1) was 1
LastReference(prev) == prev = 1

\* what is left to do after a handle has let go of object o
LetGo(o) ==
    IF o = Null THEN RcIdle ELSE [op |-> "subref", obj |-> o]

\* make_ref_counted<T>(...): object o is constructed with count 1 and the
\* empty handle h receives it
RcMake(h, o) ==
    /\ rcPending[h[1]] = RcIdle
    /\ rcHandles[h] = Null
    /\ o \notin rcCtor
    /\ rcCtor' = rcCtor \cup {o}
    /\ rcCount' = [rcCount EXCEPT ![o] = 1]
    /\ rcHandles' = [rcHandles EXCEPT ![h] = o]
    /\ UNCHANGED <<rcDtor, rcPending, outsideRc>>

\* ref_counted(const ref_counted &): handle d is copy-constructed from s by
\* the thread of s (auto c = a; a lambda capture handed to a thread that
\* has not started)
RcCopy(d, s) ==
    /\ rcPending[s[1]] = RcIdle
    /\ rcPending[d[1]] = RcIdle
    /\ d # s
    /\ rcHandles[d] = Null
    /\ rcCount' = AddRef(rcCount, rcHandles[s])
    /\ rcHandles' = [rcHandles EXCEPT ![d] = rcHandles[s]]
    /\ UNCHANGED <<rcCtor, rcDtor, rcPending, outsideRc>>

\* dst = src: the source's object gains a reference, then the object the
\* destination held loses one
RcCopyAssign(d, s) ==
    /\ d[1] = s[1]
    /\ rcPending[d[1]] = RcIdle
    /\ d # s
    /\ rcCount' = AddRef(rcCount, rcHandles[s])
    /\ rcHandles' = [rcHandles EXCEPT ![d] = rcHandles[s]]
    /\ rcPending' = [rcPending EXCEPT ![d[1]] = LetGo(rcHandles[d])]
    /\ UNCHANGED <<rcCtor, rcDtor, outsideRc>>

\* dst = std::move(src): the reference moves, the source is left empty,
\* then the object the destination held loses one reference
RcMoveAssign(d, s) ==
    /\ d[1] = s[1]
    /\ rcPending[d[1]] = RcIdle
    /\ d # s
    /\ rcHandles' = [rcHandles EXCEPT ![d] = rcHandles[s], ![s] = Null]
    /\ rcPending' = [rcPending EXCEPT ![d[1]] = LetGo(rcHandles[d])]
    /\ UNCHANGED <<rcCount, rcCtor, rcDtor, outsideRc>>

\* ~ref_counted of a non-empty handle (end of its scope)
RcDrop(h) ==
    /\ rcPending[h[1]] = RcIdle
    /\ rcHandles[h] # Null
    /\ rcHandles' = [rcHandles EXCEPT ![h] = Null]
    /\ rcPending' = [rcPending EXCEPT ![h[1]] = LetGo(rcHandles[h])]
    /\ UNCHANGED <<rcCount, rcCtor, rcDtor, outsideRc>>

\* internal_subref(): fetch_sub(1); the thread that took the last reference
\* goes on to delete the object
RcSubref(t) ==
    /\ rcPending[t].op = "subref"
    /\ rcCount' = [rcCount EXCEPT ![rcPending[t].obj] = @ - 1]
    /\ rcPending' =
          [rcPending EXCEPT ![t] =
              IF LastReference(rcCount[rcPending[t].obj])
              THEN [op |-> "delete", obj |-> rcPending[t].obj]
              ELSE RcIdle]
    /\ UNCHANGED <<rcCtor, rcDtor, rcHandles, outsideRc>>

\* delete this: the destructor runs (dtor_cnt)
RcDelete(t) ==
    /\ rcPending[t].op = "delete"
    /\ rcDtor' = [rcDtor EXCEPT ![rcPending[t].obj] = @ + 1]
    /\ rcPending' = [rcPending EXCEPT ![t] = RcIdle]
    /\ UNCHANGED <<rcCount, rcCtor, rcHandles, outsideRc>>

NextRC ==
    \/ \E h \in RcHandles, o \in RcObjs : RcMake(h, o)
    \/ \E d \in RcHandles, s \in RcHandles : RcCopy(d, s)
    \/ \E d \in RcHandles, s \in RcHandles : RcCopyAssign(d, s)
    \/ \E d \in RcHandles, s \in RcHandles : RcMoveAssign(d, s)
    \/ \E h \in RcHandles : RcDrop(h)
    \/ \E t \in RcThreads : RcSubref(t)
    \/ \E t \in RcThreads : RcDelete(t)

SpecRC == Init /\ [][NextRC]_vars

\* ------------------------------------------------- one hold on its own
\* A GenerationHold as its constructor leaves it (line 11: _refCount(1)),
\* the methods of lines 18-47 applied to it in any order by a writer and by
\* readers, with setInvalid() split at its two accesses to the word.

\* a setInvalid() call is not between its read and its compare-and-swap
SiNotCalling == siPc \in {"idle", "done"}

\* setValid(), lines 18-22, on an invalid hold, by the thread that calls
\* setInvalid()
SiSetValid ==
    /\ SiNotCalling
    /\ ~valid(siWord)
    /\ siWord' = siWord - 1
    /\ UNCHANGED <<siRollbacks, siPc, siRefs, siResult, outsideSi>>

\* acquire(), line 41: fetch_add(2); on an invalid old word the pin is not
\* kept and release() is still to come
SiAcquire ==
    /\ siPc # "aborted"
    /\ siWord \div 2 < MaxPins
    /\ siWord' = siWord + 2
    /\ siRollbacks' = IF valid(siWord) THEN siRollbacks ELSE siRollbacks + 1
    /\ UNCHANGED <<siPc, siRefs, siResult, outsideSi>>

\* acquire(), line 44: release() after the failed fetch_add
SiRollback ==
    /\ siPc # "aborted"
    /\ siRollbacks > 0
    /\ siWord' = siWord - 2
    /\ siRollbacks' = siRollbacks - 1
    /\ UNCHANGED <<siPc, siRefs, siResult, outsideSi>>

\* release(), line 36, of a pin that was kept
SiRelease ==
    /\ siPc # "aborted"
    /\ siWord \div 2 > siRollbacks
    /\ siWord' = siWord - 2
    /\ UNCHANGED <<siRollbacks, siPc, siRefs, siResult, outsideSi>>

\* setInvalid() is called
SiCall ==
    /\ SiNotCalling
    /\ siPc' = "read"
    /\ siResult' = "none"
    /\ UNCHANGED <<siWord, siRollbacks, siRefs, outsideSi>>

\* setInvalid(), lines 26-30: refs = _refCount; assert(valid(refs)), which
\* aborts in a build with asserts and is no statement in one without;
\* if (refs != 0) return false
SiRead ==
    /\ siPc = "read"
    /\ siRefs' = siWord
    /\ IF ~valid(siWord)
       THEN \/ siPc' = "aborted" /\ siResult' = "abort"
            \/ siPc' = "done" /\ siResult' = "false"
       ELSE IF StillInUse(siWord)
       THEN siPc' = "done" /\ siResult' = "false"
       ELSE siPc' = "cas" /\ UNCHANGED siResult
    /\ UNCHANGED <<siWord, siRollbacks, outsideSi>>

\* mutant: a plain store of 1 instead of the compare-and-swap
SiCasBlind == TRUE

\* line 31: compare_exchange_strong(refs, 1) finds the word equal to refs
SiCasSucceeds == siWord = siRefs

\* setInvalid(), line 31: return _refCount.compare_exchange_strong(refs, 1)
SiCas ==
    /\ siPc = "cas"
    /\ IF SiCasSucceeds
       THEN siWord' = 1 /\ siResult' = "true"
       ELSE siWord' = siWord /\ siResult' = "false"
    /\ siPc' = "done"
    /\ UNCHANGED <<siRollbacks, siRefs, outsideSi>>

NextSi ==
    \/ SiSetValid
    \/ SiAcquire
    \/ SiRollback
    \/ SiRelease
    \/ SiCall
    \/ SiRead
    \/ SiCas

SpecSi == Init /\ [][NextSi]_vars

\* ------------------------------------------- a narrow generation counter
\* generation_t arithmetic: unsigned, GenBits wide
generation_t(x) == x % GenMod

\* static_cast<sgeneration_t>(x), lines 216 and 218: the same bits, signed
sgeneration_t(x) ==
    IF generation_t(x) >= GenMod \div 2 THEN generation_t(x) - GenMod
    ELSE generation_t(x)

\* updateFirstUsedGeneration, lines 116-127, with no reader acting: holds
\* without readers leave the front of the chain, the last one stays
RECURSIVE WgSweep(_)
WgSweep(chain) ==
    IF Len(chain) > 1 /\ chain[1].refs = 0 THEN WgSweep(Tail(chain))
    ELSE chain

\* the guards alive on the narrow handler, one per reader thread at most
RECURSIVE WgPins(_)
WgPins(chain) ==
    IF chain = <<>> THEN 0 ELSE chain[1].refs + WgPins(Tail(chain))

\* incGeneration, lines 177-211, run to its end with no reader acting
WgIncGeneration ==
    /\ wgCalls < MaxWgCalls
    /\ LET n == Len(wgHolds)
           ng == generation_t(wgGeneration + 1)
           nhold_ == [gen |-> ng, refs |-> 0, born |-> wgCalls + 1]
           linked == IF wgHolds[n].refs = 0
                     THEN [wgHolds EXCEPT ![n] = nhold_]
                     ELSE Append(wgHolds, nhold_)
       IN /\ wgGeneration' = ng
          /\ wgHolds' = WgSweep(linked)
          /\ wgFirstUsed' = WgSweep(linked)[1].gen
    /\ wgCalls' = wgCalls + 1
    /\ UNCHANGED outsideWg

\* takeGuard, lines 159-175, with the writer idle: a pin on the last hold
WgTakeGuard ==
    /\ WgPins(wgHolds) < Cardinality(Readers)
    /\ wgHolds' = [wgHolds EXCEPT ![Len(wgHolds)].refs = @ + 1]
    /\ UNCHANGED <<wgGeneration, wgFirstUsed, wgCalls, outsideWg>>

\* ~Guard, line 76: the pin on the i-th hold of the chain is released
WgGuardDestroy(i) ==
    /\ wgHolds[i].refs > 0
    /\ wgHolds' = [wgHolds EXCEPT ![i].refs = @ - 1]
    /\ UNCHANGED <<wgGeneration, wgFirstUsed, wgCalls, outsideWg>>

NextWg ==
    \/ WgIncGeneration
    \/ WgTakeGuard
    \/ \E i \in 1..(Cardinality(Readers) + 1) :
           i <= Len(wgHolds) /\ WgGuardDestroy(i)

SpecWg == Init /\ [][NextWg]_vars

\* lines 220-224: the count of the first hold of the chain that carries gen
RECURSIVE WgFirstMatch(_, _)
WgFirstMatch(chain, gen) ==
    IF chain = <<>> THEN 0
    ELSE IF chain[1].gen = gen THEN chain[1].refs
    ELSE WgFirstMatch(Tail(chain), gen)

\* mutant: the range tests compare the unsigned values
WgOutOfRangeUnsigned(gen) == gen > wgGeneration \/ wgFirstUsed > gen

\* lines 216-219: gen is newer than the current generation or older than
\* the first used one, by signed difference
WgOutOfRange(gen) ==
    \/ sgeneration_t(gen - wgGeneration) > 0
    \/ sgeneration_t(wgFirstUsed - gen) > 0

\* GenerationHandler::getGenerationRefCount(generation_t), lines 213-225
WgGetGenerationRefCount(gen) ==
    IF WgOutOfRange(gen) THEN 0 ELSE WgFirstMatch(wgHolds, gen)

\* ----------------------------------------------------------- HitCollector
\* the hits a caller offers: without a sort blob and with any rank score,
\* or with sort blob b and the rank score MaxKey - b, so that the order by
\* sort blob is not the order by rank
HcInputs ==
    {[score |-> k, blob |-> 0] : k \in 0..MaxKey}
        \cup {[score |-> MaxKey - b, blob |-> b] : b \in 1..MaxKey}

\* Hit::cmpRank(rhs) < 0: the higher rank score is the better hit
cmpRank(a, b) == IF a.score > b.score THEN -1 ELSE IF a.score < b.score THEN 1 ELSE 0

\* Hit::cmpSort(rhs) < 0: the smaller sort blob is the better hit
cmpSort(a, b) == IF a.blob < b.blob THEN -1 ELSE IF a.blob > b.blob THEN 1 ELSE 0

\* Hit::SortComparator / Hit::RankComparator as the heap functions of lines
\* 86-111 use them: a orders before b when it is the better hit
HcComparator(a, b) ==
    IF hcUseSortBlob THEN cmpSort(a, b) < 0 ELSE cmpRank(a, b) < 0

\* the hits at i and j change places
HcSwap(h, i, j) == [h EXCEPT ![i] = h[j], ![j] = h[i]]

\* std::push_heap: the hit at i moves up while its parent orders before it
RECURSIVE HcSiftUp(_, _)
HcSiftUp(h, i) ==
    IF i > 1 /\ HcComparator(h[i \div 2], h[i])
    THEN HcSiftUp(HcSwap(h, i, i \div 2), i \div 2)
    ELSE h

\* the hit at i moves down, within the first n hits, while a child does not
\* order before it
RECURSIVE HcSiftDown(_, _, _)
HcSiftDown(h, i, n) ==
    LET l == 2 * i
        r == 2 * i + 1
        c == IF r <= n /\ HcComparator(h[l], h[r]) THEN r ELSE l
    IN IF l <= n /\ HcComparator(h[i], h[c])
       THEN HcSiftDown(HcSwap(h, i, c), c, n)
       ELSE h

\* HitCollector::make_heap, lines 86-93
RECURSIVE HcHeapFrom(_, _)
HcHeapFrom(h, i) ==
    IF i = 0 THEN h ELSE HcHeapFrom(HcSiftDown(h, i, Len(h)), i - 1)

make_heap(h) == HcHeapFrom(h, Len(h) \div 2)

\* HitCollector::pop_heap, lines 95-102: the first hit goes to the back, the
\* rest is a heap again
pop_heap(h) ==
    IF Len(h) <= 1 THEN h ELSE HcSiftDown(HcSwap(h, 1, Len(h)), 1, Len(h) - 1)

\* HitCollector::push_heap, lines 104-111
push_heap(h) == HcSiftUp(h, Len(h))

\* mutant: a hit as good as the worst one is taken too
addHitToHeapOnTie(hit) ==
    IF hcUseSortBlob THEN cmpSort(hit, hcHits[1]) <= 0
    ELSE cmpRank(hit, hcHits[1]) <= 0

\* HitCollector::addHitToHeap, lines 77-84
addHitToHeap(hit) ==
    IF hcUseSortBlob THEN cmpSort(hit, hcHits[1]) < 0
    ELSE cmpRank(hit, hcHits[1]) < 0

\* HitCollector::HitCollector, lines 36-42: reserve(wantedHits) on the empty
\* vector gives it the capacity wantedHits
HitCollector(wantedHits, use_sort_blob) ==
    /\ hcPc = "none"
    /\ hcPc' = "made"
    /\ hcCapacity' = wantedHits
    /\ hcUseSortBlob' = use_sort_blob
    /\ UNCHANGED <<hcHits, hcSortedByDocId, hcOffered, hcResult, outsideHc>>

\* mutant: the hit is stored whatever room is left
StoreAlways(avail) == TRUE

\* line 119: more than one free slot, no heap yet
NoHeapYet(avail) == avail > 1

\* line 118: assert(_use_sort_blob != hit.getSortBlob().empty())
HcAsserted(hit) == hcUseSortBlob # (hit.blob = 0)

\* HitCollector::addHit(Hit &&), lines 113-138; the hit gets the next docid.
\* A hit that fails the assert of line 118 aborts the program, or is taken
\* like any other where assertions are compiled out.
addHit(in) ==
    /\ hcPc = "made"
    /\ Cardinality(hcOffered) < hcCapacity + 2
    /\ LET hit == [docid |-> Cardinality(hcOffered) + 1,
                   score |-> in.score, blob |-> in.blob]
           avail == hcCapacity - Len(hcHits)
       IN /\ hcOffered' = hcOffered \cup {hit}
          /\ \/ /\ ~HcAsserted(hit)
                /\ hcPc' = "aborted"
                /\ hcResult' = "abort"
                /\ UNCHANGED <<hcHits, hcSortedByDocId>>
             \/ /\ hcPc' = hcPc
                /\ IF NoHeapYet(avail)
                   THEN /\ hcHits' = Append(hcHits, hit)
                        /\ hcResult' = "true"
                        /\ UNCHANGED hcSortedByDocId
                   ELSE IF hcCapacity = 0
                   THEN /\ hcResult' = "false"
                        /\ UNCHANGED <<hcHits, hcSortedByDocId>>
                   ELSE IF avail = 0 /\ addHitToHeap(hit)
                   THEN /\ hcHits' = push_heap([pop_heap(hcHits)
                                         EXCEPT ![Len(hcHits)] = hit])
                        /\ hcResult' = "true"
                        /\ UNCHANGED hcSortedByDocId
                   ELSE IF avail = 1
                   THEN /\ hcHits' = make_heap(Append(hcHits, hit))
                        /\ hcResult' = "true"
                        /\ hcSortedByDocId' = FALSE
                   ELSE /\ hcResult' = "false"
                        /\ UNCHANGED <<hcHits, hcSortedByDocId>>
    /\ UNCHANGED <<hcCapacity, hcUseSortBlob, outsideHc>>

NextHc ==
    \/ \E n \in 0..MaxWanted, b \in BOOLEAN : HitCollector(n, b)
    \/ \E in \in HcInputs : addHit(in)

SpecHc == Init /\ [][NextHc]_vars

\* ------------------------------------------------------ SearchEnvironment
\* getEnv(searchCluster) is called by thread t, lines 82-86
SeGetEnv(t, n) ==
    /\ sePc[t] = "idle"
    /\ seLocalEnvMap[t] = SeNullMap => seThreadLocals < MaxLocalMaps
    /\ seName' = [seName EXCEPT ![t] = n]
    /\ sePc' = [sePc EXCEPT ![t] =
                   IF seLocalEnvMap[t] = SeNullMap THEN "new_map" ELSE "find_local"]
    /\ UNCHANGED <<seLock, seLocalEnvMap, seEnvMap, seThreadLocals,
                   seConstructed, seReturned, seResolved, outsideSe>>

\* lines 87-88: the thread gets an empty map of its own
SeNewLocalMap(t) ==
    /\ sePc[t] = "new_map"
    /\ seLocalEnvMap' = [seLocalEnvMap EXCEPT ![t] = SeEmptyMap]
    /\ sePc' = [sePc EXCEPT ![t] = "lock_locals"]
    /\ UNCHANGED <<seName, seLock, seEnvMap, seThreadLocals, seConstructed,
                   seReturned, seResolved, outsideSe>>

\* mutant: the shared maps are used without _lock
SeLockNotTaken(t) == seLock' = seLock

\* std::lock_guard guard(_lock), lines 89 and 94
SeLockGuard(t) == seLock = Null /\ seLock' = t

\* line 89: the lock is taken to register the map
SeLockLocals(t) ==
    /\ sePc[t] = "lock_locals"
    /\ SeLockGuard(t)
    /\ sePc' = [sePc EXCEPT ![t] = "emplace"]
    /\ UNCHANGED <<seName, seLocalEnvMap, seEnvMap, seThreadLocals,
                   seConstructed, seReturned, seResolved, outsideSe>>

\* lines 90-91: _threadLocals.emplace_back, the guard goes out of scope
SeEmplace(t) ==
    /\ sePc[t] = "emplace"
    /\ seThreadLocals' = seThreadLocals + 1
    /\ seLock' = IF seLock = t THEN Null ELSE seLock
    /\ sePc' = [sePc EXCEPT ![t] = "find_local"]
    /\ UNCHANGED <<seName, seLocalEnvMap, seEnvMap, seConstructed,
                   seReturned, seResolved, outsideSe>>

\* lines 92-93: _localEnvMap->find(searchCluster)
SeFindLocal(t) ==
    /\ sePc[t] = "find_local"
    /\ sePc' = [sePc EXCEPT ![t] =
                   IF seLocalEnvMap[t][seName[t]] = Null THEN "lock" ELSE "return"]
    /\ UNCHANGED <<seName, seLock, seLocalEnvMap, seEnvMap, seThreadLocals,
                   seConstructed, seReturned, seResolved, outsideSe>>

\* line 94: the lock is taken for the shared map
SeLock(t) ==
    /\ sePc[t] = "lock"
    /\ SeLockGuard(t)
    /\ sePc' = [sePc EXCEPT ![t] = "find"]
    /\ UNCHANGED <<seName, seLocalEnvMap, seEnvMap, seThreadLocals,
                   seConstructed, seReturned, seResolved, outsideSe>>

\* lines 95-96: _envMap.find(searchCluster)
SeFind(t) ==
    /\ sePc[t] = "find"
    /\ sePc' = [sePc EXCEPT ![t] =
                   IF seEnvMap[seName[t]] = Null THEN "make" ELSE "insert"]
    /\ UNCHANGED <<seName, seLock, seLocalEnvMap, seEnvMap, seThreadLocals,
                   seConstructed, seReturned, seResolved, outsideSe>>

\* lines 98-100: an Env is constructed and stored in _envMap; the k-th Env
\* made for a name is Env k of that name
SeMakeEnv(t) ==
    /\ sePc[t] = "make"
    /\ seConstructed' = [seConstructed EXCEPT ![seName[t]] = @ + 1]
    /\ seEnvMap' = [seEnvMap EXCEPT ![seName[t]] = seConstructed[seName[t]] + 1]
    /\ sePc' = [sePc EXCEPT ![t] = "insert"]
    /\ UNCHANGED <<seName, seLock, seLocalEnvMap, seThreadLocals, seReturned,
                   seResolved, outsideSe>>

\* lines 102-104: the entry is copied into the local map, the guard goes
\* out of scope
SeInsertLocal(t) ==
    /\ sePc[t] = "insert"
    /\ seLocalEnvMap' = [seLocalEnvMap EXCEPT ![t][seName[t]] =
                            seEnvMap[seName[t]]]
    /\ seLock' = IF seLock = t THEN Null ELSE seLock
    /\ sePc' = [sePc EXCEPT ![t] = "return"]
    /\ UNCHANGED <<seName, seEnvMap, seThreadLocals, seConstructed,
                   seReturned, seResolved, outsideSe>>

\* line 105: return *localFound->second
SeReturn(t) ==
    /\ sePc[t] = "return"
    /\ seReturned' = [seReturned EXCEPT ![seName[t]] =
                         @ \cup {seLocalEnvMap[t][seName[t]]}]
    /\ seResolved' = [seResolved EXCEPT ![t] = @ \cup {seName[t]}]
    /\ sePc' = [sePc EXCEPT ![t] = "idle"]
    /\ UNCHANGED <<seName, seLock, seLocalEnvMap, seEnvMap, seThreadLocals,
                   seConstructed, outsideSe>>

\* clear_thread_local_env_map, lines 108-112, called by thread t
clear_thread_local_env_map(t) ==
    /\ sePc[t] = "idle"
    /\ seLocalEnvMap[t] # SeNullMap
    /\ seLocalEnvMap' = [seLocalEnvMap EXCEPT ![t] = SeNullMap]
    /\ UNCHANGED <<sePc, seName, seLock, seEnvMap, seThreadLocals,
                   seConstructed, seReturned, seResolved, outsideSe>>

NextSe ==
    \/ \E t \in SeThreads, n \in SeNames : SeGetEnv(t, n)
    \/ \E t \in SeThreads : SeNewLocalMap(t)
    \/ \E t \in SeThreads : SeLockLocals(t)
    \/ \E t \in SeThreads : SeEmplace(t)
    \/ \E t \in SeThreads : SeFindLocal(t)
    \/ \E t \in SeThreads : SeLock(t)
    \/ \E t \in SeThreads : SeFind(t)
    \/ \E t \in SeThreads : SeMakeEnv(t)
    \/ \E t \in SeThreads : SeInsertLocal(t)
    \/ \E t \in SeThreads : SeReturn(t)
    \/ \E t \in SeThreads : clear_thread_local_env_map(t)

SpecSe == Init /\ [][NextSe]_vars

\* ---------------------------------------------------------------- claims
\* takeGuard of thread t returns in this step
Returns(t) == rpc[t] = "acquire" /\ rpc'[t] = "idle"

\* incGeneration returns in this step
IncReturns == wpc = "store" /\ wpc' = "idle"

\* C1 as stated: while a guard is alive, first_used_generation never
\* exceeds the generation tag its hold record had when takeGuard returned it.
C1_WatermarkBelowReturnedTag ==
    \A g \in Guards : guards[g] # Null => firstUsedGeneration <= pinned[g]

\* C1 amended: while a guard is alive, first_used_generation never exceeds
\* the current generation tag of the hold record the guard pins, and that tag
\* is the tag G the record had when takeGuard returned the guard, or G + 1.
C1_WatermarkBelowPinnedTag ==
    \A g \in Guards :
        guards[g] # Null =>
            /\ firstUsedGeneration <= holdGeneration[guards[g]]
            /\ pinned[g] <= holdGeneration[guards[g]]
            /\ holdGeneration[guards[g]] <= pinned[g] + 1

\* a guard is alive on a hold that a morphing incGeneration has re-tagged
\* after takeGuard returned, and the watermark has followed the new tag
C1_Witness ==
    \E g \in Guards :
        /\ guards[g] # Null
        /\ holdGeneration[guards[g]] = pinned[g] + 1
        /\ firstUsedGeneration = pinned[g] + 1

\* C2: a hold that setInvalid has retired stays invalid, so that every
\* acquire on it fails, until setValid recycles it, and no guard references
\* a hold on the freelist.
C2_NoPinOfRetiredRecord ==
    /\ \A h \in FreeList : ~valid(refCount[h]) /\ GuardsOn(h) = {}
    /\ wpc = "new_valid" => ~valid(refCount[nhold]) /\ GuardsOn(nhold) = {}

\* a reader's acquire has hit a hold that sits on the freelist, and failed
C2_Witness ==
    \E t \in Readers : rpc[t] = "rollback" /\ rhold[t] \in FreeList

\* C3: a hold that a live guard references has a reader count >= 1, is
\* valid (setInvalid has not succeeded on it) and is in the live chain.
C3_PinnedRecordStaysLive ==
    \A h \in Holds :
        GuardsOn(h) # {} =>
            /\ getRefCount(h) >= 1
            /\ valid(refCount[h])
            /\ h \in LiveChain
            /\ h \notin FreeList

\* the sweep has read the word of a non-last first hold that a guard pins,
\* and gives up
C3_Witness ==
    /\ wpc = "store"
    /\ first # last
    /\ GuardsOn(first) # {}

\* C4 as stated: the reader count of a pinned hold is the number of alive
\* guards that reference it.
C4_CountIsGuards ==
    \A h \in Holds :
        GuardsOn(h) # {} => getRefCount(h) = Cardinality(GuardsOn(h))

\* the readers whose failed acquire on h is not rolled back yet
InFlight(h) == {t \in Readers : rpc[t] = "rollback" /\ rhold[t] = h}

\* C4 amended: the reader count of every hold is the number of alive guards
\* that reference it plus the number of readers whose failed acquire on it
\* has not been rolled back yet.
C4_CountIsGuardsPlusInFlight ==
    \A h \in Holds :
        getRefCount(h) = Cardinality(GuardsOn(h)) + Cardinality(InFlight(h))

\* a recycled hold is pinned by a guard while a failed acquire from before
\* its recycling is not rolled back yet
C4_Witness ==
    \E h \in Holds : GuardsOn(h) # {} /\ InFlight(h) # {}

\* C5: first_used_generation never decreases.
C5_WatermarkMonotone ==
    [][firstUsedGeneration' >= firstUsedGeneration]_vars

\* the watermark has advanced past a retired hold while an older guard
\* still holds the chain at two records
C5_Witness ==
    /\ firstUsedGeneration > 0
    /\ FreeList # {}
    /\ first # last

\* C6: takeGuard returns only from an acquire whose pre-increment word was
\* valid, and the guard it returns is non-empty and pins that hold; a failed
\* acquire is rolled back and retried, never returned.
C6_TakeGuardReturnsValidGuard ==
    [][\A t \in Readers :
          /\ Returns(t) =>
                /\ rhold[t] # Null
                /\ valid(refCount[rhold[t]])
                /\ guards'[rslot[t]] = rhold[t]
                /\ refCount'[rhold[t]] = refCount[rhold[t]] + 2
          /\ rpc[t] \in {"rollback", "retry"} =>
                /\ rpc'[t] # "idle"
                /\ guards'[rslot[t]] = Null
                /\ rpc[t] = "rollback" /\ rpc'[t] # "rollback" =>
                      refCount'[rhold[t]] = refCount[rhold[t]] - 2
      ]_vars

\* a failed acquire has been rolled back inside takeGuard, which retries
C6_Witness ==
    \E t \in Readers : rpc[t] = "retry" /\ guards[rslot[t]] = Null

\* C7 as stated: the tag of the hold a returned guard pins is never smaller
\* than the generation counter was when the takeGuard call started.
C7_PinnedTagAtLeastCounter ==
    [][\A t \in Readers :
          Returns(t) => holdGeneration'[rhold[t]] >= startGen[t]]_vars

\* C7 amended: the tag of the hold a returned guard pins is never smaller
\* than the generation counter was when the takeGuard call started, less one.
C7_PinnedTagAtLeastCounterLessOne ==
    [][\A t \in Readers :
          Returns(t) => holdGeneration'[rhold[t]] >= startGen[t] - 1]_vars

\* a guard pins a tag one below the counter: takeGuard ran while
\* incGeneration had set the counter and not yet published the new tag
C7_Witness ==
    \E g \in Guards :
        /\ guards[g] # Null
        /\ wpc \in {"morph_store", "new_publish"}
        /\ holdGeneration[guards[g]] = generation - 1
        /\ guards[g] = last

\* C8: no assert of the handler fails.
C8_NoAssertionFails == ~assertFailed

\* hold 1 has been retired by setInvalid and recycled by setValid as the
\* last hold, and reader 1 holds a guard and a copy of it
C8_Witness ==
    /\ last = 1
    /\ first # 1
    /\ guards[<<1, 1>>] # Null
    /\ guards[<<1, 2>>] = guards[<<1, 1>>]

\* what P3 promises of the incGeneration call that returns in this step
MorphOutcome ==
    /\ Cardinality(LiveChain') <= callInfo.chainLen
    /\ generation' = ngen
    /\ last' = wlast
    /\ holdGeneration'[last'] = ngen
    /\ numHolds' = callInfo.numHolds
    /\ Cardinality(FreeList') >= callInfo.freeLen

\* C9 as stated: an incGeneration called while the last hold has 0 readers
\* does not grow the live chain, reuses the last hold in place, allocates
\* nothing and pops nothing, and raises the generation by 1.
C9_MorphWhenCalledUnused ==
    [][IncReturns /\ callInfo.calledUnused => MorphOutcome]_vars

\* C9 amended: an incGeneration whose own read of the last hold's reader
\* count (line 186) is 0 does not grow the live chain, reuses the last hold
\* in place, allocates nothing and pops nothing, and raises the generation
\* by 1.
C9_MorphWhenSeenUnused ==
    [][IncReturns /\ callInfo.sawUnused => MorphOutcome]_vars

\* a morphing incGeneration is about to return with a chain of two holds
C9_Witness ==
    /\ wpc = "store"
    /\ callInfo.sawUnused
    /\ callInfo.chainLen = 2
    /\ generation = ngen

\* C10: without any reader, between incGeneration calls: after n calls the
\* generation is n, the one hold of the constructor is the whole live chain,
\* valid with 0 readers, and first_used_generation is n.
C10_FreshHandlerMorphsOnly ==
    ~everTaken /\ wpc = "idle" =>
        /\ generation = numCalls
        /\ firstUsedGeneration = numCalls
        /\ first = last
        /\ LiveChain = {1}
        /\ holdGeneration[1] = numCalls
        /\ refCount[1] = 0
        /\ numHolds = 1
        /\ FreeList = {}

\* three incGeneration calls have returned and no takeGuard has started
C10_Witness ==
    /\ ~everTaken
    /\ wpc = "idle"
    /\ numCalls = 3
    /\ generation = 3

\* the alive guards
AliveGuards == {g \in Guards : guards[g] # Null}

\* C11 (operations one at a time): on a fresh handler with the single guard
\* G1 on the generation-0 hold, the first incGeneration yields generation 1,
\* a live chain of 2 holds and first_used_generation 0; with G1 dropped, the
\* second incGeneration yields generation 2, retires the generation-0 hold,
\* and first_used_generation becomes 1 or 2 (2 when no guard is left).
C11_ScenarioB ==
    [][IncReturns =>
          /\ numCalls = 1 /\ Cardinality(AliveGuards) = 1 /\ GuardsOn(1) # {} =>
                /\ generation' = 1
                /\ Cardinality(LiveChain') = 2
                /\ first' = 1
                /\ last' # 1
                /\ holdGeneration'[last'] = 1
                /\ firstUsedGeneration' = 0
          /\ numCalls = 2 /\ callInfo.chainLen = 2 /\ GuardsOn(1) = {} =>
                /\ generation' = 2
                /\ 1 \in FreeList'
                /\ 1 \notin LiveChain'
                /\ firstUsedGeneration' \in {1, 2}
                /\ AliveGuards = {} => firstUsedGeneration' = 2
      ]_vars

\* the second incGeneration of scenario B has returned: no guard is left,
\* the generation-0 hold is on the freelist, the watermark is 2
C11_Witness ==
    /\ numCalls = 2
    /\ wpc = "idle"
    /\ AliveGuards = {}
    /\ FreeList = {1}
    /\ LiveChain = {2}
    /\ firstUsedGeneration = 2

\* C12: whenever no incGeneration call is running, every hold allocated so
\* far is in exactly one of the live chain and the freelist, and numHolds is
\* the length of the live chain plus the length of the freelist.
C12_NoLeaks ==
    wpc = "idle" =>
        /\ LiveChain \cup FreeList = 1..numHolds
        /\ LiveChain \cap FreeList = {}
        /\ numHolds = Cardinality(LiveChain) + Cardinality(FreeList)

\* three holds are allocated, two of them retired to the freelist
C12_Witness ==
    /\ wpc = "idle"
    /\ numHolds = 3
    /\ Cardinality(FreeList) = 2
    /\ Cardinality(LiveChain) = 1

\* C13: an incGeneration call that starts when no guard is alive and no
\* takeGuard is running, and during which no reader acts, leaves the live
\* chain with exactly one hold (first = last), every other allocated hold on
\* the freelist, and first_used_generation equal to the generation; so do
\* the calls that follow it under the same conditions.
C13_ChainCollapse ==
    [][IncReturns /\ callInfo.quiet =>
          /\ first' = last'
          /\ LiveChain' = {last'}
          /\ FreeList' = (1..numHolds') \ {last'}
          /\ holdGeneration'[last'] = generation'
          /\ firstUsedGeneration' = generation'
          /\ \A h \in Holds : getRefCount(h) = 0
      ]_vars

\* an undisturbed incGeneration that started on a chain of three holds is
\* about to return with the chain collapsed
C13_Witness ==
    /\ wpc = "store"
    /\ callInfo.quiet
    /\ callInfo.chainLen = 3
    /\ first = last

\* the destructor runs in this step
Destroys == wpc = "idle" /\ wpc' = "destroyed"

\* C14: the destructor called with no guard alive sweeps, fails no assert,
\* leaves one hold in the live chain and deletes every allocated hold
\* exactly once (the freelist holds and the last one), numHolds ending at 1;
\* called with a guard alive, on the last hold or on an older one, it ends
\* in an assertion failure.
C14_Destruction ==
    [][Destroys =>
          /\ AliveGuards = {} =>
                /\ ~assertFailed'
                /\ first' = last'
                /\ free' = Null
                /\ numHolds' = 1
                /\ DestructorDeletes = 1..numHolds
                /\ Cardinality(DeletedFromFreeList) + 1 = numHolds
          /\ AliveGuards # {} =>
                /\ assertFailed'
                /\ \A g \in AliveGuards : guards[g] \notin DeletedFromFreeList
      ]_vars

\* the destructor has run with no guard alive and has deleted at least three
\* holds: the last one and a freelist of two or more
C14_Witness ==
    /\ wpc = "destroyed"
    /\ ~assertFailed
    /\ AliveGuards = {}
    /\ numHolds = 1
    /\ first = last
    /\ \E h \in Holds : h # last /\ holdNext[h] # Null

\* the destructor has aborted with a guard alive on the last hold
C14_WitnessLastPinned ==
    /\ wpc = "destroyed"
    /\ assertFailed
    /\ first = last
    /\ GuardsOn(last) # {}

\* the live holds that carry the generation gen
Carrying(gen) == {h \in LiveChain : holdGeneration[h] = gen}

\* C15: between incGeneration calls, getGenerationRefCount(gen) is 0 for a
\* gen above the current generation or below first_used_generation, and
\* otherwise the count of the one live hold that carries gen, 0 when none
\* does; for a gen below first_used_generation it is 0 in every state.
C15_GenerationRefCount ==
    \A gen \in Generations :
        /\ gen < firstUsedGeneration => getGenerationRefCount(gen) = 0
        /\ wpc = "idle" =>
              /\ gen > generation => getGenerationRefCount(gen) = 0
              /\ gen <= generation /\ gen >= firstUsedGeneration =>
                    /\ Cardinality(Carrying(gen)) <= 1
                    /\ Carrying(gen) = {} => getGenerationRefCount(gen) = 0
                    /\ \A h \in Carrying(gen) :
                          getGenerationRefCount(gen) = getRefCount(h)

\* between calls: a pinned hold before last is reported with its count, a
\* generation in range that no live hold carries is reported as 0, and a
\* reader is inside takeGuard
C15_Witness ==
    /\ wpc = "idle"
    /\ \E gen \in Generations :
          /\ getGenerationRefCount(gen) = 2
          /\ Carrying(gen) # {last}
    /\ \E gen \in Generations :
          /\ gen <= generation /\ gen >= firstUsedGeneration
          /\ Carrying(gen) = {}
    /\ \E t \in Readers : rpc[t] # "idle"

\* the sum of the counts of the holds in S
RECURSIVE SumOver(_)
SumOver(S) ==
    IF S = {} THEN 0
    ELSE LET h == CHOOSE x \in S : TRUE
         IN  getRefCount(h) + SumOver(S \ {h})

\* a reader has raised a count and has not yet returned or rolled back
AcquireInFlight == \E t \in Readers : rpc[t] = "rollback"

\* C16: between incGeneration calls, the argument-less getGenerationRefCount
\* is the sum of the counts of the holds of the live chain, which is the
\* number of alive non-empty guards plus the failed acquires in flight on
\* live holds, whatever the counts of the freelist holds are, and so the
\* number of alive non-empty guards when no acquire is in flight.
C16_TotalRefCount ==
    wpc = "idle" =>
        /\ getTotalRefCount = SumOver(LiveChain)
        /\ getTotalRefCount =
              Cardinality(AliveGuards)
              + Cardinality({t \in Readers : rpc[t] = "rollback" /\ rhold[t] \in LiveChain})
        /\ ~AcquireInFlight => getTotalRefCount = Cardinality(AliveGuards)

\* between calls: two guards on two live holds, and a freelist hold whose
\* count a failed acquire has raised
C16_Witness ==
    /\ wpc = "idle"
    /\ getTotalRefCount = 2
    /\ Cardinality(AliveGuards) = 2
    /\ Cardinality(LiveChain) = 2
    /\ \E h \in FreeList : getRefCount(h) > 0

\* between calls, no acquire in flight: guards on two live holds are counted
C16_WitnessQuiet ==
    /\ wpc = "idle"
    /\ ~AcquireInFlight
    /\ getTotalRefCount = 3
    /\ Cardinality(LiveChain) = 2

\* a step of takeGuard or of a Guard constructor or destructor
ReaderStep == rpc' # rpc \/ guards' # guards

\* C17: the generation counter changes only inside an incGeneration call,
\* by exactly 1, and every call returns with the counter one above its
\* value at the call (so the counter is the number of calls made); the steps
\* of takeGuard and of guard copy, move and destruction change nothing of
\* the counter, first_used_generation, first, last, the links, the freelist,
\* the tags and the number of holds.
C17_Frame ==
    [][/\ generation' # generation =>
             /\ wpc # "idle"
             /\ generation' = generation + 1
       /\ wpc = "idle" /\ wpc' # "idle" => ngen' = generation + 1
       /\ IncReturns => generation' = ngen /\ generation' = numCalls
       /\ ReaderStep =>
             /\ UNCHANGED <<generation, firstUsedGeneration, first, last>>
             /\ UNCHANGED <<holdNext, free, holdGeneration, numHolds>>
      ]_vars

\* reader operations have run around two incGeneration calls: two guards of
\* one thread pin the same hold of a chain of two, and a failed acquire of
\* the other thread is in flight
C17_Witness ==
    /\ generation = 2
    /\ wpc = "idle"
    /\ guards[<<1, 1>>] # Null
    /\ guards[<<1, 2>>] = guards[<<1, 1>>]
    /\ rpc[2] = "rollback"
    /\ Cardinality(LiveChain) = 2

\* the words when one pin is added on the hold gained and one pin is dropped
\* from the hold lost (Null: none)
Pins(gained, lost) ==
    [h \in Holds |-> refCount[h] + (IF gained = h THEN 2 ELSE 0)
                                 - (IF lost = h THEN 2 ELSE 0)]

\* C18: a copy (construction or assignment) leaves both guards on the
\* source's hold and adds exactly one pin to it, and from an empty source
\* leaves both empty and adds no pin; a move (construction or assignment)
\* leaves the source empty, the destination on the source's hold and adds
\* no pin; an assignment drops exactly one pin from the hold the destination
\* held before; a self-assignment changes nothing; none of them fails an
\* assert.  (Only steps outside takeGuard that change a Guard object or
\* fail an assert can be such an operation with an effect.)
C18_GuardCopyMove ==
    [][rpc' = rpc /\ (guards' # guards \/ assertFailed') =>
       \A d \in Guards, s \in Guards :
          /\ GuardCopy(d, s) =>
                /\ guards'[d] = guards[s] /\ guards'[s] = guards[s]
                /\ refCount' = Pins(guards[s], Null)
                /\ ~assertFailed'
          /\ GuardMove(d, s) =>
                /\ guards'[d] = guards[s] /\ guards'[s] = Null
                /\ refCount' = refCount
          /\ GuardCopyAssign(d, s) /\ d # s =>
                /\ guards'[d] = guards[s] /\ guards'[s] = guards[s]
                /\ refCount' = Pins(guards[s], guards[d])
                /\ ~assertFailed'
          /\ GuardMoveAssign(d, s) /\ d # s =>
                /\ guards'[d] = guards[s] /\ guards'[s] = Null
                /\ refCount' = Pins(Null, guards[d])
          /\ GuardCopyAssign(d, d) \/ GuardMoveAssign(d, d) => UNCHANGED vars
          /\ (GuardCopy(d, s) \/ GuardMove(d, s) \/ GuardCopyAssign(d, s)
                \/ GuardMoveAssign(d, s)) =>
                \A g \in Guards \ {d, s} : guards'[g] = guards[g]
      ]_vars

\* thread 1 holds two guards on different holds, so that an assignment
\* between them drops a pin from one hold and, for a copy, adds one to the
\* other, while thread 2 holds a guard too
C18_Witness ==
    /\ guards[<<1, 1>>] # Null
    /\ guards[<<1, 2>>] # Null
    /\ guards[<<1, 1>>] # guards[<<1, 2>>]
    /\ guards[<<2, 1>>] = guards[<<1, 1>>]
    /\ rpc[1] = "idle"

\* the handles that point to object o
RcRefs(o) == {h \in RcHandles : rcHandles[h] = o}

\* the threads that have let go of o and not yet given its reference back
RcOwed(o) == {t \in RcThreads : rcPending[t] = LetGo(o)}

\* count_refs() of every object is the number of handles on it plus the
\* references let go of and not yet given back
RcCountIsRefs ==
    \A o \in RcObjs :
        rcDtor[o] = 0 =>
            rcCount[o] = Cardinality(RcRefs(o)) + Cardinality(RcOwed(o))

\* C19: a copy assignment leaves destination and source on the source's
\* object and, for a non-empty source, raises its count_refs by exactly 1; a
\* move assignment leaves the source empty, the destination on the source's
\* object and count_refs as it was; both leave the object the destination
\* held with one reference to give back, which lowers its count_refs by
\* exactly 1; from an empty source the destination ends empty; count_refs
\* stays the number of references.
C19_HandleSemantics ==
    [][/\ \A d \in RcHandles, s \in RcHandles :
             /\ RcCopyAssign(d, s) =>
                   /\ rcHandles'[d] = rcHandles[s] /\ rcHandles'[s] = rcHandles[s]
                   /\ rcHandles[s] # Null =>
                         /\ rcCount'[rcHandles[s]] = rcCount[rcHandles[s]] + 1
                         /\ \A x \in RcObjs \ {rcHandles[s]} : rcCount'[x] = rcCount[x]
                   /\ rcHandles[s] = Null => rcHandles'[d] = Null /\ rcCount' = rcCount
                   /\ rcPending'[d[1]] = LetGo(rcHandles[d])
             /\ RcMoveAssign(d, s) =>
                   /\ rcHandles'[d] = rcHandles[s] /\ rcHandles'[s] = Null
                   /\ rcCount' = rcCount
                   /\ rcPending'[d[1]] = LetGo(rcHandles[d])
       /\ \A t \in RcThreads, o \in RcObjs :
             rcPending[t] = LetGo(o) /\ rcPending'[t] # rcPending[t] =>
                 /\ rcCount'[o] = rcCount[o] - 1
                 /\ \A x \in RcObjs \ {o} : rcCount'[x] = rcCount[x]
       /\ RcCountIsRefs'
      ]_vars

\* dst = src of copy_ref_counted with has_src and has_dst has just run:
\* obj1, src and dst share object 1 with count_refs 3, and the reference of
\* object 2 that dst held is still to be given back
C19_Witness ==
    /\ rcHandles[<<1, 1>>] = 1
    /\ rcHandles[<<1, 3>>] = 1
    /\ rcHandles[<<1, 4>>] = 1
    /\ rcHandles[<<1, 2>>] = 2
    /\ rcCount[1] = 3
    /\ rcCount[2] = 2
    /\ rcPending[1] = LetGo(2)

\* C20: no object is destroyed twice; a destroyed object has no handle
\* and count_refs 0; an object with a handle on it is constructed and not
\* destroyed; an object whose count_refs has reached 0 is destroyed or is
\* being destroyed by the one thread that gave the last reference back;
\* when all handles are gone and no thread is inside a handle operation,
\* every constructed object has been destroyed exactly once and no other.
C20_DestroyedExactlyOnce ==
    /\ \A o \in RcObjs :
          /\ rcDtor[o] <= 1
          /\ rcDtor[o] = 1 => o \in rcCtor /\ RcRefs(o) = {} /\ rcCount[o] = 0
          /\ RcRefs(o) # {} => o \in rcCtor /\ rcDtor[o] = 0 /\ rcCount[o] >= 1
          /\ o \in rcCtor /\ rcCount[o] = 0 =>
                rcDtor[o] + Cardinality({t \in RcThreads :
                                rcPending[t] = [op |-> "delete", obj |-> o]}) = 1
          /\ rcCount[o] > 0 =>
                rcDtor[o] = 0 /\ \A t \in RcThreads : rcPending[t].op = "delete" => rcPending[t].obj # o
    /\ (\A h \in RcHandles : rcHandles[h] = Null) /\ (\A t \in RcThreads : rcPending[t] = RcIdle) =>
          \A o \in RcObjs : rcDtor[o] = (IF o \in rcCtor THEN 1 ELSE 0)

\* both objects were constructed, all handles are gone again, no thread is
\* inside a handle operation and both objects are destroyed
C20_Witness ==
    /\ rcCtor = RcObjs
    /\ \A h \in RcHandles : rcHandles[h] = Null
    /\ \A t \in RcThreads : rcPending[t] = RcIdle
    /\ \A o \in RcObjs : rcDtor[o] = 1

\* two threads give references of the same object back at the same time
C20_WitnessRace ==
    /\ rcPending[1] = LetGo(1)
    /\ rcPending[2] = LetGo(1)
    /\ rcCount[1] = 2

\* hold h leaves the live chain in this step
Retired(h) == h \in LiveChain /\ h \notin LiveChain'

\* C21: a hold leaves the live chain only as the sweep's first hold, which
\* is not last, has no reader and carries the lowest tag of the chain, and
\* nothing else leaves with it; the sweep stops only at last or at a first
\* hold whose word is not 0, and never starts a compare-and-swap on last;
\* while the first hold is pinned, is not last and gives the watermark, no
\* hold behind it is retired, whatever its count, and first and the
\* watermark stay.
C21_SweepOldestFirst ==
    [][/\ \A h \in Holds :
             Retired(h) =>
                 /\ wpc = "cas" /\ h = first /\ h # last /\ refCount[h] = 0
                 /\ \A k \in LiveChain \ {h} : holdGeneration[h] < holdGeneration[k]
                 /\ LiveChain' = LiveChain \ {h}
                 /\ first' = holdNext[h] /\ free' = h
       /\ wpc \in {"sweep", "cas"} /\ wpc' = "store" =>
             /\ first = last \/ refCount[first] # 0
             /\ first' = first
       /\ wpc' = "cas" => first' # last'
       /\ GuardsOn(first) # {} /\ first # last
             /\ firstUsedGeneration = holdGeneration[first] =>
             /\ first' = first
             /\ LiveChain \subseteq LiveChain'
             /\ firstUsedGeneration' = firstUsedGeneration
      ]_vars

\* the sweep has just stopped at a pinned first hold of a chain of three
\* whose second hold has no reader
C21_Witness ==
    /\ wpc = "store"
    /\ Cardinality(LiveChain) = 3
    /\ GuardsOn(first) # {}
    /\ holdNext[first] # last
    /\ refCount[holdNext[first]] = 0

\* the hold h is valid, carries the tag of the generation counter or, while
\* the counter is one step ahead of it, of the generation before, and is
\* reachable from first
Constructed(h) ==
    /\ valid(refCount[h])
    /\ holdGeneration[h] \in {generation, generation - 1}
    /\ h \in LiveChain

\* the writer has linked the new hold behind last (line 207) and has not
\* published it yet (line 209)
Linking == wpc \in {"new_setgen", "new_publish"}

\* C22 as stated: in every state the hold last points to is valid, carries
\* its tag, is reachable from first and has _next == nullptr.
C22_LastComplete ==
    /\ Constructed(last)
    /\ holdNext[last] = Null

\* C22 amended: in every state the hold last points to is valid, carries
\* its tag and is reachable from first; its _next is nullptr except between
\* lines 207 and 209, when it is the new hold, which is then valid, carries
\* the new generation and has _next == nullptr; so whatever takeGuard loads
\* from last is a complete hold.
C22_LastCompleteOrLinking ==
    /\ Constructed(last)
    /\ IF Linking
       THEN /\ holdNext[last] = nhold
            /\ valid(refCount[nhold])
            /\ holdGeneration[nhold] = ngen
            /\ holdNext[nhold] = Null
       ELSE holdNext[last] = Null
    /\ \A t \in Readers : rpc[t] = "acquire" => rhold[t] \in 1..numHolds

\* a takeGuard has loaded the old last while the new hold is linked behind
\* it and not yet published
C22_Witness ==
    /\ wpc = "new_publish"
    /\ holdNext[last] = nhold
    /\ \E t \in Readers : rpc[t] = "acquire" /\ rhold[t] = last

\* C23: between incGeneration calls the tags of the holds reachable from
\* first grow strictly along _next, the walk ends at last, and no hold is
\* both reachable from first and on the freelist.
C23_ChainStructure ==
    wpc = "idle" =>
        /\ \A h \in LiveChain :
              holdNext[h] # Null => holdGeneration[h] < holdGeneration[holdNext[h]]
        /\ \A h \in LiveChain, k \in LiveChain :
              h # k => holdGeneration[h] # holdGeneration[k]
        /\ last \in LiveChain
        /\ \A h \in LiveChain : holdNext[h] = Null <=> h = last
        /\ LiveChain \cap FreeList = {}

\* between calls: a chain of three holds and a retired hold on the freelist
C23_Witness ==
    /\ wpc = "idle"
    /\ Cardinality(LiveChain) = 3
    /\ FreeList # {}

\* C24: between incGeneration calls first_used_generation is the tag of the
\* first hold; in every state, inside incGeneration too, it is at most the
\* current tag of every hold reachable from first, and so of every hold an
\* alive guard pins.
C24_WatermarkLowerBound ==
    /\ wpc = "idle" => firstUsedGeneration = holdGeneration[first]
    /\ \A h \in LiveChain : firstUsedGeneration <= holdGeneration[h]
    /\ \A g \in AliveGuards :
          /\ guards[g] \in LiveChain
          /\ firstUsedGeneration <= holdGeneration[guards[g]]

\* inside incGeneration, after a retirement and before the store of line
\* 128: the watermark is strictly below the tag of the first hold, and a
\* guard is alive
C24_Witness ==
    /\ wpc = "store"
    /\ free # Null
    /\ firstUsedGeneration < holdGeneration[first]
    /\ AliveGuards # {}

\* a step of setInvalid()
SetInvalidSteps == siPc \in {"read", "cas"} /\ siPc' # siPc

\* setInvalid() ends in this step
SetInvalidEnds == SetInvalidSteps /\ siPc' \in {"done", "aborted"}

\* C25 as stated: setInvalid() returns true exactly when it changed the word
\* from 0 to 1 in one step; on a word with a reader, on an invalid word and
\* when an acquire came between its read and its compare-and-swap it
\* returns false; it changes the word in no other case.
C25_SetInvalidReturnsFalse ==
    [][/\ SetInvalidSteps /\ siResult' # "true" => siWord' = siWord
       /\ SetInvalidEnds =>
             /\ siResult' = "true" <=> (siWord = 0 /\ siWord' = 1)
             /\ siWord # 0 => siResult' = "false"
             /\ siResult' \in {"true", "false"}
      ]_vars

\* C25 amended: as stated, except on an invalid word: there setInvalid()
\* leaves the word as it is and aborts on assert(valid(refs)), or returns
\* false where asserts are compiled out.
C25_SetInvalidAssertsValid ==
    [][/\ SetInvalidSteps /\ siResult' # "true" => siWord' = siWord
       /\ SetInvalidEnds =>
             /\ siResult' = "true" <=> (siWord = 0 /\ siWord' = 1)
             /\ siWord # 0 /\ valid(siWord) => siResult' = "false"
             /\ ~valid(siWord) => siResult' \in {"abort", "false"} /\ siPc = "read"
             /\ siResult' = "abort" => ~valid(siWord)
             /\ siResult' \in {"true", "false", "abort"}
      ]_vars

\* setInvalid() read the word as 0 and returned false: an acquire came
\* between its read and its compare-and-swap
C25_Witness ==
    /\ siPc = "done"
    /\ siRefs = 0
    /\ siResult = "false"

\* setInvalid() has been called on an invalid word
C25_WitnessInvalid ==
    /\ siPc \in {"done", "aborted"}
    /\ siRefs % 2 = 1
    /\ siResult \in {"abort", "false"}

\* C26: a step of takeGuard or of a Guard operation changes a word by +2
\* or -2 only (or by both, leaving it); the valid bit of a word changes only
\* in setValid (from invalid, by -1) and in setInvalid (from 0 to 1) of the
\* writer; acquire on an invalid word keeps no pin, its rollback takes the
\* 2 back and gives no guard; acquire on a valid word gives the guard and
\* leaves the count exactly 1 higher.
C26_ReadersKeepValidBit ==
    [][/\ \A h \in Holds :
             /\ ReaderStep => refCount'[h] - refCount[h] \in {-2, 0, 2}
             /\ valid(refCount'[h]) # valid(refCount[h]) =>
                   \/ wpc = "new_valid" /\ h = nhold /\ refCount'[h] = refCount[h] - 1
                   \/ wpc = "cas" /\ h = first /\ refCount[h] = 0 /\ refCount'[h] = 1
       /\ \A t \in Readers :
             /\ rpc[t] = "acquire" /\ rpc'[t] # "acquire" =>
                   /\ refCount'[rhold[t]] = refCount[rhold[t]] + 2
                   /\ IF valid(refCount[rhold[t]])
                      THEN /\ rpc'[t] = "idle"
                           /\ guards'[rslot[t]] = rhold[t]
                           /\ refCount'[rhold[t]] \div 2 = getRefCount(rhold[t]) + 1
                      ELSE /\ rpc'[t] = "rollback"
                           /\ guards' = guards
             /\ rpc[t] = "rollback" /\ rpc'[t] # "rollback" =>
                   /\ refCount'[rhold[t]] = refCount[rhold[t]] - 2
                   /\ guards' = guards
                   /\ rpc'[t] = "retry"
      ]_vars

\* a failed acquire has been rolled back while guards are alive on two
\* holds
C26_Witness ==
    /\ \E t \in Readers : rpc[t] = "retry"
    /\ \E g \in AliveGuards, k \in AliveGuards : guards[g] # guards[k]

\* C27: an attempt of takeGuard fails only on a hold that is no longer last
\* and has left the live chain since it was loaded, so an attempt on the
\* hold that is last succeeds, and with the writer idle the attempt after a
\* failed one does; with the reader scheduled fairly and the writer making
\* its finitely many calls, at whatever pace, every takeGuard returns.
C27_TakeGuardReturns ==
    /\ [](\A t \in Readers :
             rpc[t] = "acquire" /\ ~valid(refCount[rhold[t]]) =>
                 rhold[t] # last /\ rhold[t] \notin LiveChain)
    /\ \A t \in Readers : (rpc[t] # "idle") ~> (rpc[t] = "idle")

\* an attempt has failed and been rolled back, and the writer is idle
C27_Witness ==
    /\ wpc = "idle"
    /\ \E t \in Readers : rpc[t] = "retry"

\* C28 as stated: when the writer decides between morphing and linking
\* (line 186) the generation counter already holds the new number.
C28_CounterFirst ==
    wpc = "check" => generation = ngen

\* C28: incGeneration first computes the next number (line 180) and stores
\* the counter only after the decision of line 186: at line 191 on the morph
\* path, at line 208 on the new-hold path.  Up to that store the counter
\* holds the old number, from it on the new one.
C28_CounterAfterDecision ==
    /\ wpc \in {"check", "morph_setgen", "new_alloc", "new_valid", "new_setgen"} =>
           generation = ngen - 1
    /\ wpc \in {"morph_store", "new_publish", "sweep", "cas", "store"} =>
           generation = ngen

C28_Witness ==
    /\ wpc = "check"
    /\ numCalls = 2
    /\ generation = 1
    /\ ngen = 2
    /\ getRefCount(wlast) # 0

\* C29: the tag of the hold that _last points to never exceeds the
\* generation counter, and equals it whenever the writer is not inside
\* incGeneration.
C29_LastTagBound ==
    /\ holdGeneration[last] <= generation
    /\ wpc = "idle" => holdGeneration[last] = generation

\* the counter has been stored (line 208) and the hold that carries the new
\* tag is not published yet
C29_Witness ==
    /\ wpc = "new_publish"
    /\ holdGeneration[last] < generation
    /\ holdGeneration[nhold] = generation
    /\ numCalls >= 2

\* C30 as stated: incGeneration goes on to allocate a hold only when a
\* reader holds a guard on the last hold at the time the count is inspected
\* (line 186) and the freelist is empty.
C30_AllocatesOnlyWithLiveReader ==
    [][/\ wpc = "check" /\ wpc' = "new_alloc" /\ free = Null =>
              GuardsOn(last) # {}
       /\ numHolds' # numHolds =>
              /\ wpc = "new_alloc"
              /\ free = Null
              /\ numHolds' = numHolds + 1
      ]_vars

\* C30: incGeneration takes the new-hold path only when the count of the
\* last hold read at line 186 is not 0, which a guard or the pending
\* increment of a failed acquire() makes it; it allocates (numHolds + 1) only
\* on that path and only with an empty freelist, and otherwise pops the head
\* of the freelist and leaves numHolds alone; either way the hold gets the
\* new generation and a null _next while it is still invalid and unlinked,
\* and it is valid when it is linked behind the old last hold.
C30_AllocatesOrReuses ==
    [][/\ wpc = "check" /\ wpc' = "new_alloc" =>
              /\ wlast = last
              /\ getRefCount(last) # 0
              /\ \/ GuardsOn(last) # {}
                 \/ \E t \in Readers : rpc[t] = "rollback" /\ rhold[t] = last
       /\ numHolds' # numHolds =>
              /\ wpc = "new_alloc"
              /\ ~callInfo.sawUnused
              /\ free = Null
              /\ numHolds' = numHolds + 1
              /\ nhold' = numHolds'
       /\ wpc = "new_alloc" /\ wpc' # wpc /\ free # Null =>
              /\ nhold' = free
              /\ free' = holdNext[free]
              /\ numHolds' = numHolds
       /\ wpc = "new_alloc" /\ wpc' # wpc =>
              /\ nhold' \notin LiveChain
              /\ nhold' \notin Reach(free', MaxGen + 1)
              /\ holdGeneration'[nhold'] = ngen
              /\ holdNext'[nhold'] = Null
              /\ ~valid(refCount'[nhold'])
              /\ holdNext'[last] = Null
              /\ last' = last
       /\ holdNext'[last] # holdNext[last] =>
              /\ wpc = "new_valid"
              /\ ~valid(refCount[nhold])
              /\ valid(refCount'[nhold])
              /\ holdNext'[last] = nhold
              /\ holdGeneration'[nhold] = ngen
              /\ holdNext'[nhold] = Null
              /\ last' = last
      ]_vars

\* the third call has popped the hold that the second call retired
C30_Witness ==
    /\ wpc = "new_valid"
    /\ callInfo.freeLen = 1
    /\ free = Null
    /\ numHolds = 2
    /\ callInfo.numHolds = 2
    /\ holdGeneration[nhold] = ngen
    /\ GuardsOn(last) # {}

\* the generations a query can ask about
WgGenerations == 0..(GenMod - 1)

\* the counter has wrapped: the first used generation is the larger number
WgWrapped == wgFirstUsed > wgGeneration

\* gen lies between the first used and the current generation in modular order
WgInWindow(gen) ==
    generation_t(gen - wgFirstUsed) <= generation_t(wgGeneration - wgFirstUsed)

\* the holds of the chain that carry gen
WgCarrying(gen) == {i \in 1..Len(wgHolds) : wgHolds[i].gen = gen}

\* how many incGeneration calls the first hold of the chain has lived through
WgSpan == wgCalls - wgHolds[1].born

\* what the claim expects of a query for gen
WgAsExpected(gen) ==
    IF WgInWindow(gen)
    THEN /\ \A i \in WgCarrying(gen) :
                WgGetGenerationRefCount(gen) = wgHolds[i].refs
         /\ WgCarrying(gen) = {} => WgGetGenerationRefCount(gen) = 0
    ELSE WgGetGenerationRefCount(gen) = 0

\* C31 as stated: once the counter has wrapped, a query for a generation in
\* the modular window from the first used to the current generation returns
\* the count of the hold that carries it, and any other query returns 0.
C31_WrapWindow ==
    WgWrapped => \A gen \in WgGenerations : WgAsExpected(gen)

\* C31: the same, as long as the current generation is at most 2^(w-1)
\* ahead of the first used one, which is as far as the signed difference
\* of lines 216 and 218 reaches.
C31_WrapWindowInReach ==
    WgWrapped /\ WgSpan <= GenMod \div 2 =>
        \A gen \in WgGenerations : WgAsExpected(gen)

\* wrapped, two pinned holds on either side of the wrap, queries that are
\* answered with their counts and one outside the window answered with 0
C31_Witness ==
    /\ WgWrapped
    /\ WgSpan <= GenMod \div 2
    /\ Len(wgHolds) = 3
    /\ wgHolds[1].refs = 1 /\ wgHolds[2].refs = 1
    /\ wgHolds[1].gen > wgHolds[2].gen
    /\ WgGetGenerationRefCount(wgHolds[1].gen) = 1
    /\ WgGetGenerationRefCount(wgHolds[2].gen) = 1
    /\ \E gen \in WgGenerations : ~WgInWindow(gen)

\* the hits stored in the collector
HcStored == {hcHits[i] : i \in 1..Len(hcHits)}

\* an addHit call returns in this step, and the hit it was called with
HcReturns == hcOffered' # hcOffered /\ hcResult' # "abort"
HcOfferedNow == CHOOSE hit \in hcOffered' \ hcOffered : TRUE

\* C32: a collector made with wantedHits = N never stores more than N hits;
\* an addHit call that is not stopped by the assert of line 118 stores its
\* hit and returns true while fewer than N hits are stored, and with N = 0
\* returns false and stores nothing.
C32_Capacity ==
    [][/\ Len(hcHits') <= hcCapacity'
       /\ Cardinality(HcStored') = Len(hcHits')
       /\ HcReturns /\ Len(hcHits) < hcCapacity =>
              /\ hcResult' = "true"
              /\ HcStored' = HcStored \cup {HcOfferedNow}
              /\ Len(hcHits') = Len(hcHits) + 1
       /\ HcReturns /\ hcCapacity = 0 =>
              /\ hcResult' = "false"
              /\ hcHits' = <<>>
       /\ hcOffered' # hcOffered /\ hcResult' = "abort" =>
              /\ ~HcAsserted(HcOfferedNow)
              /\ hcHits' = hcHits
      ]_vars

\* a full collector of two hits, after a hit was turned down
C32_Witness ==
    /\ hcPc = "made"
    /\ hcCapacity = 2
    /\ Len(hcHits) = 2
    /\ Cardinality(hcOffered) = 3
    /\ hcResult = "false"

\* the stored hits are best hits of the offered ones: no hit that was
\* offered and is not stored is better than a stored one, and no slot is
\* left empty while a hit is left out
HcKeepsBest ==
    /\ \A kept \in HcStored, out \in hcOffered \ HcStored :
           ~HcComparator(out, kept)
    /\ HcStored \subseteq hcOffered
    /\ Len(hcHits) < hcCapacity => HcStored = hcOffered

SeOneEnvPerName ==
    /\ \A n \in SeNames :
           /\ seConstructed[n] <= 1
           /\ seEnvMap[n] = seConstructed[n]
           /\ seReturned[n] \subseteq {1}
           /\ seReturned[n] # {} => seConstructed[n] = 1
    /\ \A t \in SeThreads :
           /\ seLocalEnvMap[t] # SeNullMap =>
                  \A n \in SeNames : seLocalEnvMap[t][n] \in {Null, seEnvMap[n]}
           /\ sePc[t] \in {"emplace", "find", "make", "insert"} => seLock = t
           /\ sePc[t] \in {"lock", "find", "make", "insert"} =>
                  seLocalEnvMap[t][seName[t]] = Null
           /\ sePc[t] = "return" => seLocalEnvMap[t][seName[t]] = 1

====
